---- MODULE Spec2Model ----
(***************************************************************************)
(* Citation formatting and export engine of the Free Cite Tool.            *)
(*                                                                         *)
(* JavaScript strings are TLA+ strings; the string primitives the code     *)
(* uses (includes, split, join, trim, toLowerCase, replace) are operators  *)
(* that work character by character.  An optional field that is absent     *)
(* (JavaScript undefined) is the value Undefined.                          *)
(***************************************************************************)
EXTENDS Integers, Sequences, FiniteSets, TLC

VARIABLES
    citation,    \* the record handed to a formatter
    citations,   \* the record collection (savedCitations / citations prop)
    filterBy,    \* Bibliography: useState<FilterOption>('all')
    sortBy,      \* Bibliography: useState<SortOption>('title')
    sortOrder,   \* Bibliography: useState<'asc' | 'desc'>('asc')
    exportFormat,\* Bibliography: useState<CitationStyle>(preferredStyle)
    preferredStyle, \* App: useKV<CitationStyle>('preferred-style', 'apa')
    editingCitation, \* Bibliography: useState<Citation | null>(null)
    editingResult,   \* search form: useState<SearchResult | null>(null)
    now,         \* the clock and random reading of the last record creation
    searchQuery, \* ArticleSearch: useState('')
    isSearching, \* ArticleSearch: useState(false)
    results,     \* ArticleSearch: useState<SearchResult[]>([])
    hasSearched, \* ArticleSearch: useState(false)
    pending,     \* the queries of the simulateSearch calls not yet settled
    calls,       \* the number of formatter and export calls that have ended
    op,          \* the operation that ran last ("none" before any)
    arg,         \* its style or format argument
    outcome,     \* "none" | "returned" | "threw" | "downloaded"
    out,         \* the string returned, the file content or the error message
    toast        \* the toast the last operation showed ("" when it showed none)

vars == <<citation, citations, filterBy, sortBy, sortOrder, exportFormat, preferredStyle,
          editingCitation, editingResult, now, searchQuery, isSearching,
                   results, hasSearched, pending, calls, op, arg, outcome, out, toast>>

searchVars == <<searchQuery, isSearching, results, hasSearched, pending>>

uiVars == <<filterBy, sortBy, sortOrder, exportFormat, preferredStyle, editingCitation,
            editingResult, now, searchQuery, isSearching,
                   results, hasSearched, pending>>

-----------------------------------------------------------------------------
(* Bounds *)

\* longest authors list drawn for a record
MaxAuthors == 3
\* most operations in a behaviour that repeats an operation
MaxCalls == 2
\* largest record collection drawn
MaxRecords == 2

-----------------------------------------------------------------------------
(* JavaScript values and string primitives *)

Undefined == "<undefined>"

\* JavaScript truthiness of an optional string
Truthy(v) == v # Undefined /\ v # ""

\* template-literal interpolation ${v}
Str(v) == IF v = Undefined THEN "undefined" ELSE v

\* the TypeError a property access on undefined raises, as the value of the
\* expression that raised it
TypeError == "<TypeError>"

\* JavaScript null
Null == [null |-> TRUE]

\* a || b on strings
Or(a, b) == IF Truthy(a) THEN a ELSE b

CharAt(s, i) == SubSeq(s, i, i)

\* first index in lo..hi at which sub occurs in s, 0 when there is none
RECURSIVE IndexIn(_, _, _, _)
IndexIn(s, sub, lo, hi) ==
    IF lo > hi THEN 0
    ELSE IF lo = hi THEN (IF SubSeq(s, lo, lo + Len(sub) - 1) = sub THEN lo ELSE 0)
    ELSE LET mid == (lo + hi) \div 2
             left == IndexIn(s, sub, lo, mid)
         IN  IF left # 0 THEN left ELSE IndexIn(s, sub, mid + 1, hi)

\* String.prototype.indexOf, counted from 1 (0 when sub does not occur)
IndexOf(s, sub) == IndexIn(s, sub, 1, Len(s) - Len(sub) + 1)

Includes(s, sub) == IndexOf(s, sub) # 0

StartsWith(s, pre) == Len(pre) <= Len(s) /\ SubSeq(s, 1, Len(pre)) = pre

EndsWith(s, suf) == Len(suf) <= Len(s) /\ SubSeq(s, Len(s) - Len(suf) + 1, Len(s)) = suf

\* String.prototype.split with a non-empty separator
RECURSIVE Split(_, _)
Split(s, sep) ==
    LET i == IndexOf(s, sep)
    IN  IF i = 0 THEN <<s>>
        ELSE <<SubSeq(s, 1, i - 1)>> \o Split(SubSeq(s, i + Len(sep), Len(s)), sep)

\* Array.prototype.join
RECURSIVE Join(_, _)
Join(parts, sep) ==
    IF parts = <<>> THEN ""
    ELSE IF Len(parts) = 1 THEN parts[1]
    ELSE parts[1] \o sep \o Join(Tail(parts), sep)

\* Array.prototype.pop on a non-empty array: its last element
Pop(parts) == parts[Len(parts)]

\* Array.prototype.slice(0, n)
Slice0(parts, n) == SubSeq(parts, 1, IF Len(parts) < n THEN Len(parts) ELSE n)

UpperLetters == "ABCDEFGHIJKLMNOPQRSTUVWXYZ"
LowerLetters == "abcdefghijklmnopqrstuvwxyz"
Digits == "0123456789"

CharsOf(s) == {CharAt(s, i) : i \in 1..Len(s)}

UpperSet == CharsOf(UpperLetters)

DigitSet == CharsOf(Digits)

\* the regular-expression class \w: letters, digits and the underscore
WordChars == UpperSet \cup CharsOf(LowerLetters) \cup DigitSet \cup {"_"}

\* the regular-expression class \s, as far as the model's texts go
IsSpace(c) == c \in {" ", "\t", "\n"}

IsWordChar(c) == c \in WordChars

LowerMap == [c \in UpperSet |-> CharAt(LowerLetters, IndexOf(UpperLetters, c))]

LowerChar(c) == IF c \in UpperSet THEN LowerMap[c] ELSE c

LowerSet == CharsOf(LowerLetters)

UpperMap == [c \in LowerSet |-> CharAt(UpperLetters, IndexOf(LowerLetters, c))]

UpperChar(c) == IF c \in LowerSet THEN UpperMap[c] ELSE c

\* String.prototype.toUpperCase
RECURSIVE ToUpperCase(_)
ToUpperCase(s) == IF s = "" THEN "" ELSE UpperChar(Head(s)) \o ToUpperCase(Tail(s))

\* String.prototype.toLowerCase
RECURSIVE ToLowerCase(_)
ToLowerCase(s) == IF s = "" THEN "" ELSE LowerChar(Head(s)) \o ToLowerCase(Tail(s))

\* String.prototype.trim
RECURSIVE TrimStart(_)
TrimStart(s) == IF s # "" /\ IsSpace(Head(s)) THEN TrimStart(Tail(s)) ELSE s

RECURSIVE TrimEnd(_)
TrimEnd(s) ==
    IF s # "" /\ IsSpace(CharAt(s, Len(s))) THEN TrimEnd(SubSeq(s, 1, Len(s) - 1)) ELSE s

Trim(s) == TrimEnd(TrimStart(s))

\* s.replace(/[^\w\s]/g, '')
RECURSIVE StripNonWord(_)
StripNonWord(s) ==
    IF s = "" THEN ""
    ELSE (IF IsWordChar(Head(s)) \/ IsSpace(Head(s)) THEN Head(s) ELSE "")
         \o StripNonWord(Tail(s))

-----------------------------------------------------------------------------
(* Style formatter *)

CitationStyle == {"apa", "mla", "chicago", "harvard"}

CitationType == {"article", "website", "book", "journal"}

\* Number(s) for a string of decimal digits, printed back without leading zeros
RECURSIVE StripLeadingZeros(_)
StripLeadingZeros(s) ==
    IF Len(s) > 1 /\ Head(s) = "0" THEN StripLeadingZeros(Tail(s)) ELSE s

RECURSIVE IsDigits(_)
IsDigits(s) == s = "" \/ (Head(s) \in DigitSet /\ IsDigits(Tail(s)))

\* new Date(iso).toLocaleDateString() for a date-only ISO string, in the
\* browser's locale (time zone at or east of UTC); "Invalid Date" otherwise
toLocaleDateString(iso, locale) ==
    LET p == Split(iso, "-")
    IN  IF Len(p) = 3 /\ \A i \in 1..3 : p[i] # "" /\ IsDigits(p[i])
        THEN IF locale = "en-US"
             THEN StripLeadingZeros(p[2]) \o "/" \o StripLeadingZeros(p[3]) \o "/" \o p[1]
             ELSE p[3] \o "/" \o p[2] \o "/" \o p[1]
        ELSE "Invalid Date"

\* the formatCitationForExport local to App.exportBibliography
appFormatCitationForExport(c, style) ==
    LET authorStr == IF Len(c.authors) > 0 THEN Join(c.authors, ", ") ELSE "Unknown Author"
        opt(cond, text) == IF cond THEN text ELSE ""
        yearOrNd == Or(c.year, "n.d.")
    IN  CASE style = "apa" ->
               authorStr \o " (" \o yearOrNd \o "). " \o Str(c.title) \o "."
               \o (IF c.type = "journal" /\ Truthy(c.source)
                   THEN " *" \o c.source \o "*"
                        \o opt(Truthy(c.volume), ", " \o c.volume)
                        \o opt(Truthy(c.issue), "(" \o c.issue \o ")")
                        \o opt(Truthy(c.pages), ", " \o c.pages)
                        \o "."
                   ELSE IF c.type = "website"
                   THEN opt(Truthy(c.source), " *" \o c.source \o "*.")
                        \o opt(Truthy(c.url), " " \o c.url)
                   ELSE opt(Truthy(c.source), " *" \o c.source \o "*.")
                        \o opt(Truthy(c.publisher), " " \o c.publisher \o "."))
          [] style = "mla" ->
               authorStr \o ". \"" \o Str(c.title) \o ".\""
               \o (IF c.type = "journal" /\ Truthy(c.source)
                   THEN " *" \o c.source \o "*"
                        \o opt(Truthy(c.volume), ", vol. " \o c.volume)
                        \o opt(Truthy(c.issue), ", no. " \o c.issue)
                        \o opt(Truthy(c.year), ", " \o c.year)
                        \o opt(Truthy(c.pages), ", pp. " \o c.pages)
                        \o "."
                   ELSE IF c.type = "website"
                   THEN opt(Truthy(c.source), " *" \o c.source \o "*")
                        \o opt(Truthy(c.year), ", " \o c.year)
                        \o opt(Truthy(c.url), ". Web.")
                   ELSE opt(Truthy(c.source), " *" \o c.source \o "*.")
                        \o opt(Truthy(c.publisher), " " \o c.publisher)
                        \o opt(Truthy(c.year), ", " \o c.year)
                        \o ".")
          [] style = "chicago" ->
               authorStr \o ". \"" \o Str(c.title) \o ".\""
               \o (IF c.type = "journal" /\ Truthy(c.source)
                   THEN " *" \o c.source \o "*"
                        \o opt(Truthy(c.volume), " " \o c.volume)
                        \o opt(Truthy(c.issue), ", no. " \o c.issue)
                        \o opt(Truthy(c.year), " (" \o c.year \o ")")
                        \o opt(Truthy(c.pages), ": " \o c.pages)
                        \o "."
                   ELSE IF c.type = "website"
                   THEN opt(Truthy(c.source), " *" \o c.source \o "*.")
                        \o opt(Truthy(c.year), " " \o c.year \o ".")
                        \o opt(Truthy(c.url), " " \o c.url \o ".")
                   ELSE opt(Truthy(c.publisher), " " \o c.publisher)
                        \o opt(Truthy(c.year), ", " \o c.year)
                        \o ".")
          [] style = "harvard" ->
               authorStr \o " (" \o yearOrNd \o ") '" \o Str(c.title) \o "'"
               \o (IF c.type = "journal" /\ Truthy(c.source)
                   THEN ", *" \o c.source \o "*"
                        \o opt(Truthy(c.volume), ", vol. " \o c.volume)
                        \o opt(Truthy(c.issue), ", no. " \o c.issue)
                        \o opt(Truthy(c.pages), ", pp. " \o c.pages)
                        \o "."
                   ELSE IF c.type = "website"
                   THEN opt(Truthy(c.source), ", *" \o c.source \o "*")
                        \o opt(Truthy(c.url), ", available at: " \o c.url \o ".")
                   ELSE opt(Truthy(c.publisher), ", " \o c.publisher)
                        \o ".")
          [] OTHER -> "Unsupported citation style"

\* CitationStyleConverter.formatCitation; locale is the browser's
formatCitation(c, style, locale) ==
    LET authorStr == IF Len(c.authors) > 0 THEN Join(c.authors, ", ") ELSE "Unknown Author"
        opt(cond, text) == IF cond THEN text ELSE ""
        yearOrNd == Or(c.year, "n.d.")
        accessed == toLocaleDateString(c.dateAccessed, locale)
    IN  CASE style = "apa" ->
               authorStr \o " (" \o yearOrNd \o "). " \o Str(c.title) \o "."
               \o (IF c.type = "journal" /\ Truthy(c.source)
                   THEN " *" \o c.source \o "*"
                        \o opt(Truthy(c.volume), ", " \o c.volume)
                        \o opt(Truthy(c.issue), "(" \o c.issue \o ")")
                        \o opt(Truthy(c.pages), ", " \o c.pages)
                        \o "."
                   ELSE IF c.type = "website"
                   THEN opt(Truthy(c.source), " *" \o c.source \o "*.")
                        \o opt(Truthy(c.url), " " \o c.url)
                   ELSE opt(Truthy(c.source), " *" \o c.source \o "*.")
                        \o opt(Truthy(c.publisher), " " \o c.publisher \o "."))
          [] style = "mla" ->
               authorStr \o ". \"" \o Str(c.title) \o ".\""
               \o (IF c.type = "journal" /\ Truthy(c.source)
                   THEN " *" \o c.source \o "*"
                        \o opt(Truthy(c.volume), ", vol. " \o c.volume)
                        \o opt(Truthy(c.issue), ", no. " \o c.issue)
                        \o opt(Truthy(c.year), ", " \o c.year)
                        \o opt(Truthy(c.pages), ", pp. " \o c.pages)
                        \o "."
                   ELSE IF c.type = "website"
                   THEN opt(Truthy(c.source), " *" \o c.source \o "*")
                        \o opt(Truthy(c.year), ", " \o c.year)
                        \o opt(Truthy(c.url), ". Web.")
                        \o opt(Truthy(c.dateAccessed), " " \o accessed \o ".")
                   ELSE opt(Truthy(c.source), " *" \o c.source \o "*.")
                        \o opt(Truthy(c.publisher), " " \o c.publisher)
                        \o opt(Truthy(c.year), ", " \o c.year)
                        \o ".")
          [] style = "chicago" ->
               authorStr \o ". \"" \o Str(c.title) \o ".\""
               \o (IF c.type = "journal" /\ Truthy(c.source)
                   THEN " *" \o c.source \o "*"
                        \o opt(Truthy(c.volume), " " \o c.volume)
                        \o opt(Truthy(c.issue), ", no. " \o c.issue)
                        \o opt(Truthy(c.year), " (" \o c.year \o ")")
                        \o opt(Truthy(c.pages), ": " \o c.pages)
                        \o "."
                   ELSE IF c.type = "website"
                   THEN opt(Truthy(c.source), " *" \o c.source \o "*.")
                        \o opt(Truthy(c.year), " " \o c.year \o ".")
                        \o opt(Truthy(c.url), " " \o c.url)
                        \o opt(Truthy(c.dateAccessed), " (accessed " \o accessed \o ").")
                   ELSE opt(Truthy(c.publisher), " " \o c.publisher)
                        \o opt(Truthy(c.year), ", " \o c.year)
                        \o ".")
          [] style = "harvard" ->
               authorStr \o " (" \o yearOrNd \o ") '" \o Str(c.title) \o "'"
               \o (IF c.type = "journal" /\ Truthy(c.source)
                   THEN ", *" \o c.source \o "*"
                        \o opt(Truthy(c.volume), ", vol. " \o c.volume)
                        \o opt(Truthy(c.issue), ", no. " \o c.issue)
                        \o opt(Truthy(c.pages), ", pp. " \o c.pages)
                        \o "."
                   ELSE IF c.type = "website"
                   THEN opt(Truthy(c.source), ", *" \o c.source \o "*")
                        \o opt(Truthy(c.url), ", available at: " \o c.url)
                        \o opt(Truthy(c.dateAccessed), " (Accessed: " \o accessed \o ").")
                   ELSE opt(Truthy(c.publisher), ", " \o c.publisher)
                        \o ".")
          [] OTHER -> "Unsupported citation style"

\* formatCitationForExport without the APA issue clause
formatCitationForExportNoIssue(c, style) ==
    appFormatCitationForExport(IF style = "apa" THEN [c EXCEPT !.issue = Undefined] ELSE c,
                               style)

\* formatCitationForExport reading pages.length of a record without pages
formatCitationForExportPagesLength(c, style) ==
    IF c.pages = Undefined THEN TypeError ELSE appFormatCitationForExport(c, style)

\* formatCitationForExport building its result in a buffer it never clears
formatCitationForExportKeepsBuffer(c, style) == out \o appFormatCitationForExport(c, style)

\* Bibliography.formatCitationForExport
formatCitationForExport(c, style) ==
    LET authorStr == IF Len(c.authors) > 0 THEN Join(c.authors, ", ") ELSE "Unknown Author"
        opt(cond, text) == IF cond THEN text ELSE ""
        yearOrNd == Or(c.year, "n.d.")
    IN  CASE style = "apa" ->
               authorStr \o " (" \o yearOrNd \o "). " \o Str(c.title) \o "."
               \o (IF c.type = "journal" /\ Truthy(c.source)
                   THEN " *" \o c.source \o "*"
                        \o opt(Truthy(c.volume), ", " \o c.volume)
                        \o opt(Truthy(c.issue), "(" \o c.issue \o ")")
                        \o opt(Truthy(c.pages), ", " \o c.pages)
                        \o "."
                   ELSE IF c.type = "website"
                   THEN opt(Truthy(c.source), " *" \o c.source \o "*.")
                        \o opt(Truthy(c.url), " " \o c.url)
                   ELSE opt(Truthy(c.source), " *" \o c.source \o "*.")
                        \o opt(Truthy(c.publisher), " " \o c.publisher \o "."))
          [] style = "mla" ->
               authorStr \o ". \"" \o Str(c.title) \o ".\""
               \o (IF c.type = "journal" /\ Truthy(c.source)
                   THEN " *" \o c.source \o "*"
                        \o opt(Truthy(c.volume), ", vol. " \o c.volume)
                        \o opt(Truthy(c.issue), ", no. " \o c.issue)
                        \o opt(Truthy(c.year), ", " \o c.year)
                        \o opt(Truthy(c.pages), ", pp. " \o c.pages)
                        \o "."
                   ELSE IF c.type = "website"
                   THEN opt(Truthy(c.source), " *" \o c.source \o "*")
                        \o opt(Truthy(c.year), ", " \o c.year)
                        \o opt(Truthy(c.url), ". Web.")
                   ELSE opt(Truthy(c.source), " *" \o c.source \o "*.")
                        \o opt(Truthy(c.publisher), " " \o c.publisher)
                        \o opt(Truthy(c.year), ", " \o c.year)
                        \o ".")
          [] style = "chicago" ->
               authorStr \o ". \"" \o Str(c.title) \o ".\""
               \o (IF c.type = "journal" /\ Truthy(c.source)
                   THEN " *" \o c.source \o "*"
                        \o opt(Truthy(c.volume), " " \o c.volume)
                        \o opt(Truthy(c.issue), ", no. " \o c.issue)
                        \o opt(Truthy(c.year), " (" \o c.year \o ")")
                        \o opt(Truthy(c.pages), ": " \o c.pages)
                        \o "."
                   ELSE IF c.type = "website"
                   THEN opt(Truthy(c.source), " *" \o c.source \o "*.")
                        \o opt(Truthy(c.year), " " \o c.year \o ".")
                        \o opt(Truthy(c.url), " " \o c.url \o ".")
                   ELSE opt(Truthy(c.publisher), " " \o c.publisher)
                        \o opt(Truthy(c.year), ", " \o c.year)
                        \o ".")
          [] style = "harvard" ->
               authorStr \o " (" \o yearOrNd \o ") '" \o Str(c.title) \o "'"
               \o (IF c.type = "journal" /\ Truthy(c.source)
                   THEN ", *" \o c.source \o "*"
                        \o opt(Truthy(c.volume), ", vol. " \o c.volume)
                        \o opt(Truthy(c.issue), ", no. " \o c.issue)
                        \o opt(Truthy(c.pages), ", pp. " \o c.pages)
                        \o "."
                   ELSE IF c.type = "website"
                   THEN opt(Truthy(c.source), ", *" \o c.source \o "*")
                        \o opt(Truthy(c.url), ", available at: " \o c.url \o ".")
                   ELSE opt(Truthy(c.publisher), ", " \o c.publisher)
                        \o ".")
          [] OTHER -> "Unsupported citation style"

\* lastNameOf without the "Family, Given" case
lastNameOfNoComma(author) == Or(Pop(Split(author, " ")), "Unknown")

\* firstAuthor.includes(',') ? firstAuthor.split(',')[0]
\*                           : firstAuthor.split(' ').pop() || 'Unknown'
lastNameOf(author) ==
    IF Includes(author, ",") THEN Split(author, ",")[1]
    ELSE Or(Pop(Split(author, " ")), "Unknown")

\* Bibliography.formatInTextCitation
formatInTextCitation(c, style) ==
    LET firstAuthor == IF Len(c.authors) > 0 THEN c.authors[1] ELSE "Unknown Author"
        authorLastName == lastNameOf(firstAuthor)
        yearOrNd == Or(c.year, "n.d.")
    IN  CASE style = "apa" ->
               IF Len(c.authors) = 1
               THEN IF Truthy(c.pages)
                    THEN "(" \o authorLastName \o ", " \o yearOrNd \o ", p. " \o c.pages \o ")"
                    ELSE "(" \o authorLastName \o ", " \o yearOrNd \o ")"
               ELSE IF Len(c.authors) = 2
               THEN LET secondAuthor == lastNameOf(c.authors[2])
                    IN  IF Truthy(c.pages)
                        THEN "(" \o authorLastName \o " & " \o secondAuthor \o ", "
                             \o yearOrNd \o ", p. " \o c.pages \o ")"
                        ELSE "(" \o authorLastName \o " & " \o secondAuthor \o ", "
                             \o yearOrNd \o ")"
               ELSE IF Truthy(c.pages)
                    THEN "(" \o authorLastName \o " et al., " \o yearOrNd
                         \o ", p. " \o c.pages \o ")"
                    ELSE "(" \o authorLastName \o " et al., " \o yearOrNd \o ")"
          [] style = "mla" ->
               IF Truthy(c.pages) THEN "(" \o authorLastName \o " " \o c.pages \o ")"
               ELSE "(" \o authorLastName \o ")"
          [] style = "chicago" ->
               IF Truthy(c.pages)
               THEN "(" \o authorLastName \o " " \o yearOrNd \o ", " \o c.pages \o ")"
               ELSE "(" \o authorLastName \o " " \o yearOrNd \o ")"
          [] style = "harvard" ->
               IF Truthy(c.pages)
               THEN "(" \o authorLastName \o " " \o yearOrNd \o ": " \o c.pages \o ")"
               ELSE "(" \o authorLastName \o " " \o yearOrNd \o ")"
          [] OTHER -> "(" \o authorLastName \o ", " \o yearOrNd \o ")"

-----------------------------------------------------------------------------
(* Records the formatters are applied to *)

AuthorPool == <<"Lee, A.", "Kim, B.", "Ann Roy", "Cho, D.", "Eve Fox", "Gil, H.">>

\* authors lists of 0..MaxAuthors names, in "Family, Given" and "Given Family" form
AuthorLists ==
    {[k \in 1..n |-> AuthorPool[start + k - 1]] : start \in {1, 3}, n \in 0..MaxAuthors}

Locales == {"en-US", "en-GB"}

\* style arguments: the four of CitationStyle and one outside it
StyleInputs == CitationStyle \cup {"vancouver"}

FormatRecords ==
    [id : {"c1"},
     title : {"Climate Models"},
     authors : AuthorLists,
     year : {"", "2021"},
     source : {"", "Nature"},
     url : {Undefined, "http://x.org/a"},
     doi : {Undefined, "10.1000/j1"},
     pages : {Undefined, "10-20"},
     volume : {Undefined, "12"},
     issue : {Undefined, "4"},
     publisher : {Undefined, "MIT Press"},
     type : CitationType,
     dateAccessed : {Undefined, "2024-01-05"},
     confidence : {Undefined}]

NoCitation ==
    [id |-> "", title |-> "", authors |-> <<>>, year |-> "", source |-> "",
     url |-> Undefined, doi |-> Undefined, pages |-> Undefined, volume |-> Undefined,
     issue |-> Undefined, publisher |-> Undefined, type |-> "article",
     dateAccessed |-> Undefined, confidence |-> Undefined]

FullFormatters == {"formatCitation", "formatCitationForExport", "appFormatCitationForExport"}

-----------------------------------------------------------------------------
(* Formatting operations *)

\* No call has been made yet.  The formatters are pure functions of their
\* arguments, so a behaviour is one call on the record drawn initially.
Idle == outcome = "none"

Returned(o, a, text) ==
    /\ op' = o
    /\ arg' = a
    /\ outcome' = "returned"
    /\ calls' = calls + 1
    /\ out' = text

Threw(o, a, message) ==
    /\ op' = o
    /\ arg' = a
    /\ outcome' = "threw"
    /\ calls' = calls + 1
    /\ out' = message

\* the call ends with the value of its body: an exception raised in the body
\* goes to the caller, any other value is returned
Completed(o, a, value) ==
    IF value = TypeError THEN Threw(o, a, "TypeError") ELSE Returned(o, a, value)

\* CitationStyleConverter renders the selected record in the selected style
FormatCitation ==
    \E style \in StyleInputs, locale \in Locales :
        /\ Idle
        /\ citation # NoCitation
        /\ Completed("formatCitation", style, formatCitation(citation, style, locale))
        /\ UNCHANGED <<citation, citations, uiVars, toast>>

\* Bibliography renders a record (copyFullCitation, the list, the export)
FormatCitationForExport ==
    \E style \in StyleInputs :
        /\ Idle
        /\ citation # NoCitation
        /\ Completed("formatCitationForExport", style, formatCitationForExport(citation, style))
        /\ UNCHANGED <<citation, citations, uiVars, toast>>

\* App.exportBibliography renders a record with its local formatter
AppFormatCitationForExport ==
    \E style \in StyleInputs :
        /\ Idle
        /\ citation # NoCitation
        /\ Completed("appFormatCitationForExport", style,
                     appFormatCitationForExport(citation, style))
        /\ UNCHANGED <<citation, citations, uiVars, toast>>

\* Bibliography renders the in-text form (copyInTextCitation)
FormatInTextCitation ==
    \E style \in StyleInputs :
        /\ Idle
        /\ citation # NoCitation
        /\ Completed("formatInTextCitation", style, formatInTextCitation(citation, style))
        /\ UNCHANGED <<citation, citations, uiVars, toast>>

InitUI ==
    /\ filterBy = "all"
    /\ sortBy = "title"
    /\ sortOrder = "asc"
    /\ preferredStyle = "apa"
    /\ exportFormat = preferredStyle
    /\ editingCitation = Null
    /\ editingResult = Null
    /\ now = 0
    /\ searchQuery = ""
    /\ isSearching = FALSE
    /\ results = <<>>
    /\ hasSearched = FALSE
    /\ pending = <<>>

InitIdle ==
    /\ op = "none"
    /\ arg = ""
    /\ outcome = "none"
    /\ out = ""
    /\ toast = ""
    /\ calls = 0

InitFormat ==
    /\ citation \in FormatRecords
    /\ citations = <<>>
    /\ InitUI
    /\ InitIdle

NextFormat ==
    \/ FormatCitation
    \/ FormatCitationForExport
    \/ AppFormatCitationForExport
    \/ FormatInTextCitation

SpecFormat == InitFormat /\ [][NextFormat]_vars

-----------------------------------------------------------------------------
(* Export encoders of lib/exportUtils *)

\* the format identifiers of type ExportFormat
ExportFormat == {"text", "ris", "bibtex", "endnote", "zotero", "mendeley"}

\* arr.map(f) for a sequence
Map(f(_), arr) == [i \in DOMAIN arr |-> f(arr[i])]

\* lines.push(x) under a condition
Push(cond, line) == IF cond THEN <<line>> ELSE <<>>

\* typeMap[citation.type] || fallback
TypeMapOr(map, type, fallback) == IF type \in DOMAIN map THEN map[type] ELSE fallback

\* risPageLines with the start page reused as the end page of a single page
risPageLinesStartAsEnd(pages) ==
    IF Truthy(pages)
    THEN <<"SP  - " \o Split(pages, "-")[1]>>
         \o <<"EP  - " \o (IF Includes(pages, "-") THEN Split(pages, "-")[2]
                           ELSE Split(pages, "-")[1])>>
    ELSE <<>>

\* the SP and EP lines of generateRISFormat
risPageLines(pages) ==
    IF Truthy(pages)
    THEN <<"SP  - " \o Split(pages, "-")[1]>>
         \o Push(Includes(pages, "-"), "EP  - " \o Split(pages, "-")[2])
    ELSE <<>>

\* one record's block of generateRISFormat
risEntry(c) ==
    LET typeMap == [article |-> "JOUR", journal |-> "JOUR", book |-> "BOOK",
                    website |-> "ELEC"]
        lines ==
            <<"TY  - " \o TypeMapOr(typeMap, c.type, "GEN")>>
            \o <<"TI  - " \o Str(c.title)>>
            \o [i \in DOMAIN c.authors |-> "AU  - " \o c.authors[i]]
            \o Push(Truthy(c.year), "PY  - " \o c.year)
            \o Push(Truthy(c.source),
                    IF c.type = "journal" \/ c.type = "article"
                    THEN "JO  - " \o c.source ELSE "T2  - " \o c.source)
            \o Push(Truthy(c.volume), "VL  - " \o c.volume)
            \o Push(Truthy(c.issue), "IS  - " \o c.issue)
            \o risPageLines(c.pages)
            \o Push(Truthy(c.publisher), "PB  - " \o c.publisher)
            \o Push(Truthy(c.url), "UR  - " \o c.url)
            \o Push(Truthy(c.doi), "DO  - " \o c.doi)
            \o Push(Truthy(c.dateAccessed) /\ c.type = "website", "Y2  - " \o c.dateAccessed)
            \o <<"ER  - ">>
    IN  Join(lines, "\n")

generateRISFormat(cs) == Join(Map(risEntry, cs), "\n\n")

\* generateCitationKey with slice(0, 4) in place of slice(0, 3)
generateCitationKeyFourWords(c) ==
    LET firstAuthor == IF Len(c.authors) > 0 THEN Or(c.authors[1], "unknown") ELSE "unknown"
        authorLastName ==
            IF Includes(firstAuthor, ",") THEN Trim(Split(firstAuthor, ",")[1])
            ELSE Or(Pop(Split(firstAuthor, " ")), "unknown")
        year == Or(c.year, "nd")
        titleWords == Join(Slice0(Split(StripNonWord(ToLowerCase(c.title)), " "), 4), "")
    IN  ToLowerCase(authorLastName) \o year \o titleWords

generateCitationKey(c) ==
    LET firstAuthor == IF Len(c.authors) > 0 THEN Or(c.authors[1], "unknown") ELSE "unknown"
        authorLastName ==
            IF Includes(firstAuthor, ",") THEN Trim(Split(firstAuthor, ",")[1])
            ELSE Or(Pop(Split(firstAuthor, " ")), "unknown")
        year == Or(c.year, "nd")
        titleWords == Join(Slice0(Split(StripNonWord(ToLowerCase(c.title)), " "), 3), "")
    IN  ToLowerCase(authorLastName) \o year \o titleWords

\* one record's entry of generateBibTeXFormat
bibEntry(c) ==
    LET citationKey == generateCitationKey(c)
        typeMap == [article |-> "article", journal |-> "article", book |-> "book",
                    website |-> "misc"]
        lines ==
            <<"@" \o TypeMapOr(typeMap, c.type, "misc") \o "{" \o citationKey \o ",">>
            \o <<"  title={" \o Str(c.title) \o "},">>
            \o Push(Len(c.authors) > 0, "  author={" \o Join(c.authors, " and ") \o "},")
            \o Push(Truthy(c.year), "  year={" \o c.year \o "},")
            \o (IF c.type = "journal" \/ c.type = "article"
                THEN Push(Truthy(c.source), "  journal={" \o c.source \o "},")
                     \o Push(Truthy(c.volume), "  volume={" \o c.volume \o "},")
                     \o Push(Truthy(c.issue), "  number={" \o c.issue \o "},")
                     \o Push(Truthy(c.pages), "  pages={" \o c.pages \o "},")
                ELSE IF c.type = "book"
                THEN Push(Truthy(c.publisher), "  publisher={" \o c.publisher \o "},")
                ELSE IF c.type = "website"
                THEN Push(Truthy(c.source),
                          "  howpublished={\\url{" \o Or(c.url, c.source) \o "}},")
                     \o Push(Truthy(c.dateAccessed),
                             "  note={Accessed: " \o c.dateAccessed \o "},")
                ELSE <<>>)
            \o Push(Truthy(c.url), "  url={" \o c.url \o "},")
            \o Push(Truthy(c.doi), "  doi={" \o c.doi \o "},")
            \o <<"}">>
    IN  Join(lines, "\n")

generateBibTeXFormat(cs) == Join(Map(bibEntry, cs), "\n\n")

\* one record's entry of generateEndNoteFormat
endnoteEntry(c) ==
    LET typeMap == [article |-> "0", journal |-> "0", book |-> "6", website |-> "12"]
        lines ==
            <<"%0 " \o TypeMapOr(typeMap, c.type, "13")>>
            \o <<"%T " \o Str(c.title)>>
            \o [i \in DOMAIN c.authors |-> "%A " \o c.authors[i]]
            \o Push(Truthy(c.year), "%D " \o c.year)
            \o Push(Truthy(c.source),
                    IF c.type = "journal" \/ c.type = "article"
                    THEN "%J " \o c.source ELSE "%B " \o c.source)
            \o Push(Truthy(c.volume), "%V " \o c.volume)
            \o Push(Truthy(c.issue), "%N " \o c.issue)
            \o Push(Truthy(c.pages), "%P " \o c.pages)
            \o Push(Truthy(c.publisher), "%I " \o c.publisher)
            \o Push(Truthy(c.url), "%U " \o c.url)
    IN  Join(lines, "\n")

generateEndNoteFormat(cs) == Join(Map(endnoteEntry, cs), "\n\n")

\* the Blob handed to the browser as a file download
Downloaded(o, a, content) ==
    /\ op' = o
    /\ arg' = a
    /\ outcome' = "downloaded"
    /\ calls' = calls + 1
    /\ out' = content

\* format arguments of exportToFile: those of ExportFormat and one outside it
ExportToFileInputs == ExportFormat \cup {"csv"}

\* exportToFile without the check for an empty collection
ExportToFileNoEmptyCheck ==
    \E format \in ExportToFileInputs :
        /\ Idle
        /\ CASE format \in {"ris", "zotero", "mendeley"} ->
                  Downloaded("exportToFile", format, generateRISFormat(citations))
             [] format = "bibtex" ->
                  Downloaded("exportToFile", format, generateBibTeXFormat(citations))
             [] format = "endnote" ->
                  Downloaded("exportToFile", format, generateEndNoteFormat(citations))
             [] OTHER ->
                  Threw("exportToFile", format, "Unsupported export format: " \o format)
        /\ UNCHANGED <<citation, citations, uiVars, toast>>

\* exportToFile(citations, format)
ExportToFile ==
    \E format \in ExportToFileInputs :
        /\ Idle
        /\ IF Len(citations) = 0
           THEN Threw("exportToFile", format, "No citations to export")
           ELSE CASE format \in {"ris", "zotero", "mendeley"} ->
                       Downloaded("exportToFile", format, generateRISFormat(citations))
                  [] format = "bibtex" ->
                       Downloaded("exportToFile", format, generateBibTeXFormat(citations))
                  [] format = "endnote" ->
                       Downloaded("exportToFile", format, generateEndNoteFormat(citations))
                  [] OTHER ->
                       Threw("exportToFile", format, "Unsupported export format: " \o format)
        /\ UNCHANGED <<citation, citations, uiVars, toast>>

\* direct calls of the exported generators
GenerateRISFormat ==
    /\ Idle
    /\ Returned("generateRISFormat", "", generateRISFormat(citations))
    /\ UNCHANGED <<citation, citations, uiVars, toast>>

GenerateBibTeXFormat ==
    /\ Idle
    /\ Returned("generateBibTeXFormat", "", generateBibTeXFormat(citations))
    /\ UNCHANGED <<citation, citations, uiVars, toast>>

GenerateEndNoteFormat ==
    /\ Idle
    /\ Returned("generateEndNoteFormat", "", generateEndNoteFormat(citations))
    /\ UNCHANGED <<citation, citations, uiVars, toast>>

-----------------------------------------------------------------------------
(* Collections the encoders of lib/exportUtils are applied to *)

LibRecords ==
    [id : {"c1"},
     title : {"Deep Learning for X", "Deep_Learning: a  b", "Climate Models"},
     authors : {<<>>, <<"Smith, John">>, <<"John Smith", "Kim, B.">>},
     year : {"", "2023"},
     source : {"", "Nature"},
     url : {Undefined, "http://x.org/a"},
     doi : {Undefined},
     pages : {Undefined, "99", "123-145", "1-2-3"},
     volume : {Undefined},
     issue : {Undefined},
     publisher : {Undefined},
     type : CitationType,
     dateAccessed : {Undefined, "2024-01-05"},
     confidence : {Undefined}]

\* the records that follow the first one in a drawn collection
MoreRecords ==
    {[id |-> "c2", title |-> "Alpha Waves", authors |-> <<"Roy, Ann">>, year |-> "1999",
      source |-> "Penguin", url |-> Undefined, doi |-> "10.1000/j1", pages |-> Undefined,
      volume |-> "12", issue |-> "4", publisher |-> "Penguin",
      type |-> "book", dateAccessed |-> Undefined, confidence |-> Undefined],
     [id |-> "c3", title |-> "Zeta News", authors |-> <<>>, year |-> "",
      source |-> "Zeta", url |-> "http://z.org", doi |-> Undefined, pages |-> "7",
      volume |-> Undefined, issue |-> Undefined, publisher |-> Undefined,
      type |-> "website", dateAccessed |-> "2024-02-10", confidence |-> Undefined]}

\* the empty collection and those of 1..MaxRecords records that start with a
\* record of first
Collections(first) ==
    {<<>>} \cup
    {<<f>> \o rest : f \in first,
                     rest \in UNION {[1..k -> MoreRecords] : k \in 0..(MaxRecords - 1)}}

InitLib ==
    /\ citation = NoCitation
    /\ citations \in Collections(LibRecords)
    /\ InitUI
    /\ InitIdle

NextLib ==
    \/ ExportToFile
    \/ GenerateRISFormat
    \/ GenerateBibTeXFormat
    \/ GenerateEndNoteFormat

SpecLib == InitLib /\ [][NextLib]_vars

-----------------------------------------------------------------------------
(* The Bibliography component: filtered and sorted view, export dialog *)

\* primary collation order of the characters the model's texts use: spaces,
\* punctuation, digits, letters
CollationOrder == " _-,;:!?.'\"()[]{}@*/\\&#%<=>0123456789abcdefghijklmnopqrstuvwxyz"

CollationWeight == [c \in CharsOf(CollationOrder) |-> IndexOf(CollationOrder, c)]

PrimaryWeight(c) ==
    LET l == LowerChar(c)
    IN  IF l \in DOMAIN CollationWeight THEN CollationWeight[l] ELSE 0

\* the order of a and b by a weight of their characters: -1, 0 or 1
RECURSIVE CompareBy(_, _, _)
CompareBy(weight(_), a, b) ==
    IF a = "" /\ b = "" THEN 0
    ELSE IF a = "" THEN -1
    ELSE IF b = "" THEN 1
    ELSE LET wa == weight(Head(a))
             wb == weight(Head(b))
         IN  IF wa < wb THEN -1
             ELSE IF wa > wb THEN 1
             ELSE CompareBy(weight, Tail(a), Tail(b))

\* lower case sorts before upper case when the letters are the same
CaseWeight(c) == IF c \in UpperSet THEN 1 ELSE 0

\* String.prototype.localeCompare: letters first, then case
localeCompare(a, b) ==
    LET primary == CompareBy(PrimaryWeight, a, b)
    IN  IF primary # 0 THEN primary ELSE CompareBy(CaseWeight, a, b)

\* the comparator of filteredAndSortedCitations
comparison(a, b, by, order) ==
    LET cmp == CASE by = "title" -> localeCompare(a.title, b.title)
                 [] by = "author" ->
                      localeCompare(IF Len(a.authors) > 0 THEN Or(a.authors[1], "Unknown")
                                    ELSE "Unknown",
                                    IF Len(b.authors) > 0 THEN Or(b.authors[1], "Unknown")
                                    ELSE "Unknown")
                 [] by = "year" -> localeCompare(Or(a.year, "0"), Or(b.year, "0"))
                 [] by = "type" -> localeCompare(a.type, b.type)
                 [] OTHER -> 0
    IN  IF order = "asc" THEN cmp ELSE -cmp

\* Array.prototype.filter
RECURSIVE Filter(_, _)
Filter(keep(_), arr) ==
    IF arr = <<>> THEN <<>>
    ELSE (IF keep(Head(arr)) THEN <<Head(arr)>> ELSE <<>>) \o Filter(keep, Tail(arr))

\* x put into a sorted array, after the elements it does not precede
RECURSIVE Insert(_, _, _, _)
Insert(x, sorted, by, order) ==
    IF sorted = <<>> THEN <<x>>
    ELSE IF comparison(x, Head(sorted), by, order) < 0 THEN <<x>> \o sorted
    ELSE <<Head(sorted)>> \o Insert(x, Tail(sorted), by, order)

\* Array.prototype.sort (stable) with the comparator above
RECURSIVE Sort(_, _, _)
Sort(arr, by, order) ==
    IF arr = <<>> THEN <<>>
    ELSE Insert(arr[Len(arr)], Sort(SubSeq(arr, 1, Len(arr) - 1), by, order), by, order)

\* the filter and the sort of filteredAndSortedCitations on a collection
viewOf(cs) ==
    LET keep(c) == filterBy = "all" \/ c.type = filterBy
    IN  Sort(Filter(keep, cs), sortBy, sortOrder)

filteredAndSortedCitations == viewOf(citations)

\* str.replace(/\n/g, with)
ReplaceNewlines(str, with) == Join(Split(str, "\n"), with)

\* str.replace(/\s+/g, '')
RECURSIVE RemoveSpaces(_)
RemoveSpaces(s) ==
    IF s = "" THEN ""
    ELSE (IF IsSpace(Head(s)) THEN "" ELSE Head(s)) \o RemoveSpaces(Tail(s))

\* content of the 'rtf' export for the formatted citations
rtfContent(formatted) ==
    "{\\rtf1\\ansi\\deff0 {\\fonttbl {\\f0 Times New Roman;}}\\f0\\fs24 "
    \o "Bibliography\\par\\par "
    \o Join([i \in DOMAIN formatted |-> ReplaceNewlines(formatted[i], "\\par ")],
            "\\par\\par ")
    \o "}"

csvHeaders == "Title,Authors,Year,Source,Type,URL,DOI,Pages,Volume,Issue"

\* a row of the 'csv' export with the Authors and Year columns exchanged
csvRowYearFirst(c) ==
    "\"" \o Str(c.title) \o "\",\"" \o Str(c.year) \o "\",\"" \o Join(c.authors, "; ")
    \o "\",\"" \o Str(c.source) \o "\",\"" \o Str(c.type) \o "\",\"" \o Or(c.url, "")
    \o "\",\"" \o Or(c.doi, "") \o "\",\"" \o Or(c.pages, "") \o "\",\""
    \o Or(c.volume, "") \o "\",\"" \o Or(c.issue, "") \o "\""

\* a row of the 'csv' export
csvRow(c) ==
    "\"" \o Str(c.title) \o "\",\"" \o Join(c.authors, "; ") \o "\",\"" \o Str(c.year)
    \o "\",\"" \o Str(c.source) \o "\",\"" \o Str(c.type) \o "\",\"" \o Or(c.url, "")
    \o "\",\"" \o Or(c.doi, "") \o "\",\"" \o Or(c.pages, "") \o "\",\""
    \o Or(c.volume, "") \o "\",\"" \o Or(c.issue, "") \o "\""

csvContent(cs) == Join(<<csvHeaders>> \o Map(csvRow, cs), "\n")

\* cond ? text : '' inside a template literal
Opt(cond, text) == IF cond THEN text ELSE ""

\* an entry of the component's 'bibtex' export
bibtexBlock(c) ==
    LET key == (IF Len(c.authors) > 0 THEN RemoveSpaces(Split(c.authors[1], ",")[1])
                ELSE "undefined") \o Str(c.year)
    IN  "@article{" \o key \o ",\n"
        \o "  title={" \o Str(c.title) \o "},\n"
        \o "  author={" \o Join(c.authors, " and ") \o "},\n"
        \o "  year={" \o Str(c.year) \o "},\n"
        \o "  journal={" \o Str(c.source) \o "},\n"
        \o "  " \o Opt(Truthy(c.volume), "volume={" \o c.volume \o "},") \o "\n"
        \o "  " \o Opt(Truthy(c.issue), "number={" \o c.issue \o "},") \o "\n"
        \o "  " \o Opt(Truthy(c.pages), "pages={" \o c.pages \o "},") \o "\n"
        \o "  " \o Opt(Truthy(c.doi), "doi={" \o c.doi \o "},") \o "\n"
        \o "  " \o Opt(Truthy(c.url), "url={" \o c.url \o "}") \o "\n"
        \o "}"

\* risBlock that writes no EP line for a single page
risBlockNoEndPage(c) ==
    "TY  - JOUR\n"
    \o "TI  - " \o Str(c.title) \o "\n"
    \o Join([i \in DOMAIN c.authors |-> "AU  - " \o c.authors[i]], "\n") \o "\n"
    \o "PY  - " \o Str(c.year) \o "\n"
    \o "JO  - " \o Str(c.source) \o "\n"
    \o Opt(Truthy(c.pages),
           "SP  - " \o Split(c.pages, "-")[1]
           \o (IF Len(Split(c.pages, "-")) > 1
               THEN "\nEP  - " \o Split(c.pages, "-")[2] ELSE "")) \o "\n"
    \o "ER  -"

\* a block of the component's 'ris' export
risBlock(c) ==
    "TY  - JOUR\n"
    \o "TI  - " \o Str(c.title) \o "\n"
    \o Join([i \in DOMAIN c.authors |-> "AU  - " \o c.authors[i]], "\n") \o "\n"
    \o "PY  - " \o Str(c.year) \o "\n"
    \o "JO  - " \o Str(c.source) \o "\n"
    \o Opt(Truthy(c.volume), "VL  - " \o c.volume) \o "\n"
    \o Opt(Truthy(c.issue), "IS  - " \o c.issue) \o "\n"
    \o Opt(Truthy(c.pages),
           "SP  - " \o Split(c.pages, "-")[1] \o "\nEP  - "
           \o (IF Len(Split(c.pages, "-")) > 1 /\ Split(c.pages, "-")[2] # ""
               THEN Split(c.pages, "-")[2] ELSE Split(c.pages, "-")[1])) \o "\n"
    \o Opt(Truthy(c.doi), "DO  - " \o c.doi) \o "\n"
    \o Opt(Truthy(c.url), "UR  - " \o c.url) \o "\n"
    \o "ER  -"

\* an rdf:Description element of the 'zotero' export
rdfDescription(c) ==
    "\n  <rdf:Description rdf:about=\"urn:isbn:" \o Str(c.id) \o "\">\n"
    \o "    <dc:title>" \o Str(c.title) \o "</dc:title>\n"
    \o "    <dc:creator>" \o Join(c.authors, "; ") \o "</dc:creator>\n"
    \o "    <dc:date>" \o Str(c.year) \o "</dc:date>\n"
    \o "    <dc:source>" \o Str(c.source) \o "</dc:source>\n"
    \o "    <dc:type>" \o Str(c.type) \o "</dc:type>\n"
    \o "    " \o Opt(Truthy(c.url), "<dc:identifier>" \o c.url \o "</dc:identifier>") \o "\n"
    \o "  </rdf:Description>"

zoteroContent(cs) ==
    "<?xml version=\"1.0\" encoding=\"UTF-8\"?>\n"
    \o "<rdf:RDF xmlns:rdf=\"http://www.w3.org/1999/02/22-rdf-syntax-ns#\"\n"
    \o "         xmlns:z=\"http://www.zotero.org/namespaces/export#\"\n"
    \o "         xmlns:dc=\"http://purl.org/dc/elements/1.1/\">\n"
    \o Join(Map(rdfDescription, cs), "")
    \o "\n</rdf:RDF>"

\* mendeleyBlock with the match confidence written as a field
mendeleyBlockWithConfidence(c) ==
    "Type: Journal Article\n"
    \o "Title: " \o Str(c.title) \o "\n"
    \o "Authors: " \o Join(c.authors, "; ") \o "\n"
    \o "Year: " \o Str(c.year) \o "\n"
    \o "Journal: " \o Str(c.source) \o "\n"
    \o Opt(Truthy(c.confidence), "Confidence: " \o c.confidence) \o "\n"

\* a block of the 'mendeley' export
mendeleyBlock(c) ==
    "Type: Journal Article\n"
    \o "Title: " \o Str(c.title) \o "\n"
    \o "Authors: " \o Join(c.authors, "; ") \o "\n"
    \o "Year: " \o Str(c.year) \o "\n"
    \o "Journal: " \o Str(c.source) \o "\n"
    \o Opt(Truthy(c.volume), "Volume: " \o c.volume) \o "\n"
    \o Opt(Truthy(c.issue), "Issue: " \o c.issue) \o "\n"
    \o Opt(Truthy(c.pages), "Pages: " \o c.pages) \o "\n"
    \o Opt(Truthy(c.doi), "DOI: " \o c.doi) \o "\n"
    \o Opt(Truthy(c.url), "URL: " \o c.url) \o "\n"

mendeleyContent(cs) == Join(Map(mendeleyBlock, cs), "\n---\n\n")

\* The component handlers run from controls that are rendered and enabled
\* only while the collection is non-empty: the Bibliography component returns
\* its empty card before the toolbar when citations.length === 0, and App
\* disables the export trigger when savedCitations.length === 0.  Whether the
\* export dialog is open is not part of the model.

FilterOption == {"all", "article", "website", "book", "journal"}

\* the sort keys the Select offers
SortOption == {"title", "author", "year", "type"}

BibliographyFormats == {"txt", "rtf", "csv", "bibtex", "ris", "zotero", "mendeley"}

AppFormats == {"rtf", "txt", "zotero", "mendeley"}

SetFilterBy ==
    \E value \in FilterOption :
        /\ Idle
        /\ filterBy # value
        /\ filterBy' = value
        /\ UNCHANGED <<citation, citations, sortBy, sortOrder, exportFormat, preferredStyle,
                       editingCitation, editingResult, now, searchQuery, isSearching,
                   results, hasSearched, pending, calls, op, arg, outcome, out,
                       toast>>

SetSortBy ==
    \E value \in SortOption :
        /\ Idle
        /\ sortBy # value
        /\ sortBy' = value
        /\ UNCHANGED <<citation, citations, filterBy, sortOrder, exportFormat, preferredStyle,
                       editingCitation, editingResult, now, searchQuery, isSearching,
                   results, hasSearched, pending, calls, op, arg, outcome, out,
                       toast>>

\* setSortOrder(sortOrder === 'asc' ? 'desc' : 'asc')
ToggleSortOrder ==
    /\ Idle
    /\ sortOrder' = IF sortOrder = "asc" THEN "desc" ELSE "asc"
    /\ UNCHANGED <<citation, citations, filterBy, sortBy, exportFormat, preferredStyle,
                   editingCitation, editingResult, now, searchQuery, isSearching,
                   results, hasSearched, pending, calls, op, arg, outcome, out, toast>>

\* the content exportBibliography(format) writes for the records of the view
exportBibliographyContent(format, view, style) ==
    LET formattedCitations ==
            [i \in DOMAIN view |-> formatCitationForExport(view[i], style)]
    IN  CASE format = "txt" -> Join(formattedCitations, "\n\n")
          [] format = "rtf" -> rtfContent(formattedCitations)
          [] format = "csv" -> csvContent(view)
          [] format = "bibtex" -> Join(Map(bibtexBlock, view), "\n\n")
          [] format = "ris" -> Join(Map(risBlock, view), "\n\n")
          [] format = "zotero" -> zoteroContent(view)
          [] format = "mendeley" -> mendeleyContent(view)
          [] OTHER -> ""

\* exportBibliography(format) of the Bibliography component with the export dialog
ExportBibliography ==
    \E format \in BibliographyFormats :
        /\ Idle
        /\ Len(citations) > 0
        /\ LET view == filteredAndSortedCitations
               content == exportBibliographyContent(format, view, exportFormat)
           IN  IF Len(view) = 0
               THEN /\ Returned("exportBibliography", format, "")
                    /\ toast' = "No citations to export"
               ELSE /\ Downloaded("exportBibliography", format, content)
                    /\ toast' = "Bibliography exported as " \o ToUpperCase(format) \o "!"
        /\ UNCHANGED <<citation, citations, uiVars>>

\* exportBibliography() of the Bibliography component without the dialog
ExportBibliographyTxt ==
    /\ Idle
    /\ Len(citations) > 0
    /\ LET view == filteredAndSortedCitations
       IN  IF Len(view) = 0
           THEN /\ Returned("exportBibliographyTxt", "txt", "")
                /\ toast' = "No citations to export"
           ELSE /\ Downloaded("exportBibliographyTxt", "txt",
                              Join([i \in DOMAIN view |->
                                       formatCitationForExport(view[i], exportFormat)],
                                   "\n\n"))
                /\ toast' = "Bibliography exported successfully!"
    /\ UNCHANGED <<citation, citations, uiVars>>

\* App.exportBibliography(format)
AppExportBibliography ==
    \E format \in AppFormats :
        /\ Idle
        /\ Len(citations) > 0
        /\ IF Len(citations) = 0
           THEN Returned("appExportBibliography", format, "")
           ELSE LET formattedCitations ==
                        [i \in DOMAIN citations |->
                            appFormatCitationForExport(citations[i], preferredStyle)]
                    content ==
                        CASE format = "txt" -> Join(formattedCitations, "\n\n")
                          [] format = "rtf" -> rtfContent(formattedCitations)
                          [] format = "zotero" -> zoteroContent(citations)
                          [] format = "mendeley" -> mendeleyContent(citations)
                          [] OTHER -> ""
                IN  Downloaded("appExportBibliography", format, content)
        /\ UNCHANGED <<citation, citations, uiVars, toast>>

-----------------------------------------------------------------------------
(* Collections the export entry points are applied to *)

\* a record with every optional field absent, and year and source empty
Bare(c) ==
    [c EXCEPT !.year = "", !.source = "", !.url = Undefined, !.doi = Undefined,
              !.pages = Undefined, !.volume = Undefined, !.issue = Undefined,
              !.publisher = Undefined, !.dateAccessed = Undefined]

BibliographyRecords ==
    LET full == [id : {"c1"},
                 title : {"Climate Models"},
                 authors : {<<>>, <<"Lee, A.", "Kim, B.">>},
                 year : {"2021"},
                 source : {"Nature"},
                 url : {"http://x.org/a"},
                 doi : {"10.1000/j1"},
                 pages : {"99", "123-145"},
                 volume : {"12"},
                 issue : {"4"},
                 publisher : {"MIT Press"},
                 type : CitationType,
                 dateAccessed : {"2024-01-05"},
                 confidence : {Undefined}]
    IN  full \cup {Bare(c) : c \in full}

InitBibliography ==
    /\ citation = NoCitation
    /\ citations \in Collections(BibliographyRecords)
    /\ InitUI
    /\ InitIdle

NextBibliography ==
    \/ SetFilterBy
    \/ SetSortBy
    \/ ToggleSortOrder
    \/ ExportBibliography
    \/ ExportBibliographyTxt
    \/ AppExportBibliography
    \/ ExportToFile

SpecBibliography == InitBibliography /\ [][NextBibliography]_vars

-----------------------------------------------------------------------------
(* Claims about the style formatter, checked under SpecFormat *)

\* the record of the end-to-end scenario
ClimateModels ==
    [id |-> "c1", title |-> "Climate Models", authors |-> <<"Lee, A.", "Kim, B.">>,
     year |-> "2021", source |-> "Nature", url |-> Undefined, doi |-> Undefined,
     pages |-> "10-20", volume |-> "12", issue |-> "4", publisher |-> Undefined,
     type |-> "journal", dateAccessed |-> Undefined, confidence |-> Undefined]

FullCall(style) == op \in FullFormatters /\ outcome = "returned" /\ arg = style

InTextCall(style) == op = "formatInTextCitation" /\ outcome = "returned" /\ arg = style

\* C1: for a record with no authors and each supported style, the full
\* citation contains "Unknown Author" and the in-text citation uses the
\* surname "Unknown", that is, it starts with "(Unknown".
C1_UnknownAuthorPlaceholder ==
    (citation.authors = <<>> /\ outcome = "returned" /\ arg \in CitationStyle) =>
        /\ op \in FullFormatters => Includes(out, "Unknown Author")
        /\ op = "formatInTextCitation" => StartsWith(out, "(Unknown")

\* C2: the APA full citation of a journal record with source, authors, year,
\* volume, issue and pages is
\* <authors joined by ", "> (<year>). <title>. *<source>*, <volume>(<issue>), <pages>.
\* and the Climate Models record renders as the scenario's string.
C2_ApaJournalFull ==
    (/\ FullCall("apa")
     /\ citation.type = "journal"
     /\ citation.authors # <<>>
     /\ \A f \in {"source", "year", "volume", "issue", "pages"} : Truthy(citation[f])) =>
        /\ out = Join(citation.authors, ", ") \o " (" \o citation.year \o "). "
                 \o citation.title \o ". *" \o citation.source \o "*, "
                 \o citation.volume \o "(" \o citation.issue \o "), "
                 \o citation.pages \o "."
        /\ citation = ClimateModels =>
               out = "Lee, A., Kim, B. (2021). Climate Models. *Nature*, 12(4), 10-20."

C2_Witness ==
    /\ citation = ClimateModels
    /\ op = "formatCitationForExport"
    /\ arg = "apa"
    /\ out = "Lee, A., Kim, B. (2021). Climate Models. *Nature*, 12(4), 10-20."

\* C3 as stated: the APA in-text citation of the Climate Models record
\* (pages "10-20") is exactly "(Lee & Kim, 2021)".
C3_InTextWithoutPages ==
    (citation = ClimateModels /\ InTextCall("apa")) => out = "(Lee & Kim, 2021)"

\* C3 amended: the APA in-text citation of the Climate Models record carries
\* the record's pages: it is exactly "(Lee & Kim, 2021, p. 10-20)"; the same
\* record without pages gives "(Lee & Kim, 2021)".
C3_InTextWithPages ==
    InTextCall("apa") =>
        /\ citation = ClimateModels => out = "(Lee & Kim, 2021, p. 10-20)"
        /\ citation = [ClimateModels EXCEPT !.pages = Undefined] =>
               out = "(Lee & Kim, 2021)"

C3_Witness ==
    /\ citation = ClimateModels
    /\ InTextCall("apa")
    /\ out = "(Lee & Kim, 2021, p. 10-20)"

\* the surname of an author as section 4.1 defines it: the text before the
\* first comma, else the last space-delimited token
SurnameOf(author) ==
    LET i == IndexOf(author, ",")
        words == Split(author, " ")
    IN  IF i # 0 THEN SubSeq(author, 1, i - 1) ELSE words[Len(words)]

\* C4: APA in-text by author count: one author gives (Surname, Year), two
\* give (SurnameA & SurnameB, Year), and the "et al." form is produced only
\* for three or more authors; ", p. <pages>" precedes the closing parenthesis
\* iff pages is present, and Year is "n.d." when year is empty.
C4_ApaInTextByAuthorCount ==
    InTextCall("apa") =>
        LET n == Len(citation.authors)
            y == IF citation.year = "" THEN "n.d." ELSE citation.year
            pg == IF Truthy(citation.pages) THEN ", p. " \o citation.pages ELSE ""
        IN  /\ n = 1 => out = "(" \o SurnameOf(citation.authors[1]) \o ", " \o y \o pg \o ")"
            /\ n = 2 => out = "(" \o SurnameOf(citation.authors[1]) \o " & "
                               \o SurnameOf(citation.authors[2]) \o ", " \o y \o pg \o ")"
            /\ n >= 3 => out = "(" \o SurnameOf(citation.authors[1]) \o " et al., "
                                \o y \o pg \o ")"
            /\ Includes(out, " et al.") => n >= 3

\* C5: for a website record with a url, the Harvard full citation of each
\* full-citation formatter ends with ", available at: <url>."
C5_HarvardWebsiteEnding ==
    (FullCall("harvard") /\ citation.type = "website" /\ Truthy(citation.url)) =>
        EndsWith(out, ", available at: " \o citation.url \o ".")

-----------------------------------------------------------------------------
(* Claims about lib/exportUtils, checked under SpecLib *)

\* the lines of record i's block in a document of blank-line-separated blocks
BlockLines(doc, i) == Split(Split(doc, "\n\n")[i], "\n")

\* the lines among lines that carry the tag
Tagged(lines, tag) == {k \in DOMAIN lines : StartsWith(lines[k], tag)}

\* the number of hyphens in s
Hyphens(s) == Len(Split(s, "-")) - 1

FirstKey(doc) ==
    LET line == Split(doc, "\n")[1]
    IN  SubSeq(line, IndexOf(line, "{") + 1, Len(line) - 1)

\* the words of a text: its non-empty pieces between spaces
Words(text) == LET nonEmpty(w) == w # "" IN Filter(nonEmpty, Split(text, " "))

\* a text without the characters that are neither letters nor digits
RECURSIVE AlphanumericOnly(_)
AlphanumericOnly(s) ==
    IF s = "" THEN ""
    ELSE (IF Head(s) \in (UpperSet \cup LowerSet \cup DigitSet) THEN Head(s) ELSE "")
         \o AlphanumericOnly(Tail(s))

BibTeXCall ==
    /\ outcome \in {"returned", "downloaded"}
    /\ \/ op = "generateBibTeXFormat"
       \/ op = "exportToFile" /\ arg = "bibtex"

\* C7: the BibTeX key is lowercase(surname of the first author, or "unknown"
\* without authors) + (year or "nd") + the first three words of the title,
\* lowercased, concatenated, every non-alphanumeric character removed; its
\* title-derived part has only the characters a-z and 0-9.
C7_KeyAlphanumeric ==
    (BibTeXCall /\ citations # <<>>) =>
        LET c == citations[1]
            surname == IF c.authors = <<>> THEN "unknown" ELSE SurnameOf(c.authors[1])
            prefix == ToLowerCase(surname) \o (IF c.year = "" THEN "nd" ELSE c.year)
            titlePart == AlphanumericOnly(Join(Slice0(Words(ToLowerCase(c.title)), 3), ""))
            key == FirstKey(out)
        IN  /\ key = prefix \o titlePart
            /\ \A k \in (Len(prefix) + 1)..Len(key) :
                   CharAt(key, k) \in (LowerSet \cup DigitSet)

\* the record of the BibTeX key example
IsSmithRecord(c) ==
    c.authors = <<"Smith, John">> /\ c.year = "2023" /\ c.title = "Deep Learning for X"

\* C8 as stated: the key of {authors ["Smith, John"], year "2023", title
\* "Deep Learning for X"} is smith2023deeplearningforx.
C8_KeyWithFourthWord ==
    (BibTeXCall /\ citations # <<>> /\ IsSmithRecord(citations[1])) =>
        FirstKey(out) = "smith2023deeplearningforx"

\* C8 amended: the key of that record is smith2023deeplearningfor (the first
\* three words of the title), from every generation of it.
C8_KeyThreeWords ==
    (BibTeXCall /\ citations # <<>> /\ IsSmithRecord(citations[1])) =>
        FirstKey(out) = "smith2023deeplearningfor"

C8_Witness ==
    /\ op = "generateBibTeXFormat"
    /\ citations # <<>>
    /\ IsSmithRecord(citations[1])
    /\ citations[1].type = "journal"
    /\ StartsWith(out, "@article{smith2023deeplearningfor,\n")

-----------------------------------------------------------------------------
(* Claims about the export entry points, checked under SpecBibliography *)

\* the text of a double-quote-wrapped CSV row between its outer quotes
Unquoted(row) == SubSeq(row, 2, Len(row) - 1)

\* C9: the CSV export of n records has n+1 lines: the header
\* Title,Authors,Year,Source,Type,URL,DOI,Pages,Volume,Issue and one row per
\* record of 10 double-quoted fields in that order, an absent optional field
\* empty, the authors joined with "; ".
C9_CsvRows ==
    (op = "exportBibliography" /\ arg = "csv" /\ outcome = "downloaded") =>
        LET view == filteredAndSortedCitations
            lines == Split(out, "\n")
        IN  /\ Len(lines) = Len(view) + 1
            /\ filterBy = "all" => Len(view) = Len(citations)
            /\ lines[1] = "Title,Authors,Year,Source,Type,URL,DOI,Pages,Volume,Issue"
            /\ \A i \in DOMAIN view :
                LET c == view[i]
                    row == lines[i + 1]
                    absent(v) == IF v = Undefined THEN "" ELSE v
                IN  /\ StartsWith(row, "\"") /\ EndsWith(row, "\"")
                    /\ Split(Unquoted(row), "\",\"") =
                           <<c.title, Join(c.authors, "; "), c.year, c.source, c.type,
                             absent(c.url), absent(c.doi), absent(c.pages),
                             absent(c.volume), absent(c.issue)>>

C9_Witness ==
    /\ op = "exportBibliography"
    /\ arg = "csv"
    /\ Len(citations) = 2
    /\ filterBy = "all"
    /\ citations[1].url = Undefined
    /\ Len(citations[1].authors) = 2
    /\ Len(Split(out, "\n")) = 3

ExportCall ==
    /\ outcome # "none"
    /\ op \in {"exportToFile", "exportBibliography", "exportBibliographyTxt",
               "appExportBibliography"}

\* the records the call was to export
Exported ==
    IF op \in {"exportBibliography", "exportBibliographyTxt"}
    THEN filteredAndSortedCitations ELSE citations

-----------------------------------------------------------------------------
(* Claims about exportToFile's formats, checked under SpecLib *)

\* C11: on a non-empty collection exportToFile raises the unsupported-format
\* error only for a format outside ExportFormat; for every declared format it
\* produces content without raising.
C11_UnsupportedOnlyOutsideExportFormat ==
    (op = "exportToFile" /\ outcome # "none" /\ citations # <<>>) =>
        /\ outcome = "threw" => arg \notin ExportFormat
        /\ arg \in ExportFormat => outcome = "downloaded"

-----------------------------------------------------------------------------
(* Further claims about the style formatter, checked under SpecFormat *)

\* C12: for a style outside {apa, mla, chicago, harvard}, the full-citation
\* formatters and the in-text formatter all return the sentinel
\* "Unsupported citation style".
C12_UnsupportedStyleSentinel ==
    (outcome = "returned" /\ arg \notin CitationStyle
     /\ op \in FullFormatters \cup {"formatInTextCitation"}) =>
        out = "Unsupported citation style"

\* a record of FormatRecords without any optional field, year or source
IsBareRecord(c) ==
    /\ \A f \in {"url", "doi", "pages", "volume", "issue", "publisher", "dateAccessed"} :
           c[f] = Undefined
    /\ c.year = ""
    /\ c.source = ""

\* C13: for every supported style and every record with a title, a type and
\* an authors list, whatever optional fields are present or absent, each
\* full-citation formatter returns a string and does not throw.
C13_FullCitationNeverThrows ==
    (op \in FullFormatters /\ outcome # "none" /\ arg \in CitationStyle) =>
        /\ outcome = "returned"
        /\ out # TypeError
        /\ Len(out) > 0

C13_Witness ==
    /\ op = "formatCitationForExport"
    /\ arg = "chicago"
    /\ outcome = "returned"
    /\ IsBareRecord(citation)
    /\ citation.authors = <<>>
    /\ citation.type = "website"
    /\ StartsWith(out, "Unknown Author. ")

-----------------------------------------------------------------------------
(* Repeated formatting of one record *)

\* formatCitationForExport called again, after an earlier call has ended
FormatCitationForExportAgain ==
    \E style \in StyleInputs :
        /\ ~Idle
        /\ calls < MaxCalls
        /\ citation # NoCitation
        /\ Completed("formatCitationForExport", style, formatCitationForExport(citation, style))
        /\ UNCHANGED <<citation, citations, uiVars, toast>>

NextFormatAgain ==
    \/ FormatCitationForExport
    \/ FormatCitationForExportAgain

SpecFormatAgain == InitFormat /\ [][NextFormatAgain]_vars

-----------------------------------------------------------------------------
(* Claims about the export documents, checked under SpecBibliography *)

\* the BibTeX entry type the spec gives a record type
BibTeXEntryType(type) ==
    CASE type \in {"article", "journal"} -> "article"
      [] type = "book" -> "book"
      [] type = "website" -> "misc"

\* C15: every BibTeX export path opens each record's entry with @article for
\* article and journal, @book for book and @misc for website.
C15_BibTeXEntryTypes ==
    (/\ outcome = "downloaded"
     /\ arg = "bibtex"
     /\ op \in {"exportToFile", "exportBibliography"}) =>
        LET entries == Split(out, "\n\n")
        IN  /\ Len(entries) = Len(Exported)
            /\ \A i \in DOMAIN Exported :
                   StartsWith(entries[i], "@" \o BibTeXEntryType(Exported[i].type) \o "{")

\* the RIS reference type the spec gives a record type
RisReferenceType(type) ==
    CASE type \in {"article", "journal"} -> "JOUR"
      [] type = "book" -> "BOOK"
      [] type = "website" -> "ELEC"

\* the k-th smallest element of a set of numbers
Nth(S, k) == CHOOSE i \in S : Cardinality({j \in S : j < i}) = k - 1

RisExportCall ==
    /\ outcome = "downloaded"
    /\ \/ op = "generateRISFormat"
       \/ op = "exportToFile" /\ arg = "ris"
       \/ op = "exportBibliography" /\ arg = "ris"

\* C16: every RIS export path emits one block per record, in record order:
\* its first line is "TY  - " with JOUR for article and journal, BOOK for book
\* and ELEC for website, its last line is the ER terminator, and the document
\* has as many TY lines and as many ER lines as records.
C16_RisBlocks ==
    RisExportCall =>
        LET lines == Split(out, "\n")
            ty == Tagged(lines, "TY  - ")
            er == Tagged(lines, "ER  -")
            n == Len(Exported)
        IN  /\ Cardinality(ty) = n
            /\ Cardinality(er) = n
            /\ \A k \in 1..n :
                   /\ lines[Nth(ty, k)] = "TY  - " \o RisReferenceType(Exported[k].type)
                   /\ Nth(ty, k) < Nth(er, k)
                   /\ k < n => Nth(er, k) < Nth(ty, k + 1)
            /\ n > 0 => (Nth(ty, 1) = 1 /\ Nth(er, n) = Len(lines))

\* the number of occurrences of a text in a document
Occurrences(doc, text) == Len(Split(doc, text)) - 1

\* C17: in every export entry point the 'zotero' format produces an RDF/XML
\* document with one rdf:Description element per record, and the 'mendeley'
\* format one labeled-field text block per record, consecutive blocks
\* separated by a "---" line.
C17_ZoteroRdfMendeleyBlocks ==
    (ExportCall /\ outcome = "downloaded") =>
        LET n == Len(Exported)
            blocks == Split(out, "\n---\n")
        IN  /\ arg = "zotero" =>
                   /\ StartsWith(out, "<?xml ")
                   /\ Occurrences(out, "<rdf:Description ") = n
                   /\ Occurrences(out, "</rdf:Description>") = n
                   /\ \A i \in 1..n :
                          Includes(out, "<dc:title>" \o Exported[i].title \o "</dc:title>")
            /\ arg = "mendeley" =>
                   /\ Len(blocks) = n
                   /\ \A i \in 1..n :
                          Includes(blocks[i], "Title: " \o Exported[i].title \o "\n")

-----------------------------------------------------------------------------
(* The record collection: App.tsx and the handlers that create, edit and   *)
(* delete records                                                          *)

\* setSavedCitations((current) => [...current, citation])
addCitation(current, c) == Append(current, c)

\* updateCitation that takes the record out and puts the new one at the end
updateCitationMovesToEnd(current, id, updatedCitation) ==
    Filter(LAMBDA c : c.id # id, current)
        \o (IF \E i \in DOMAIN current : current[i].id = id THEN <<updatedCitation>> ELSE <<>>)

\* updateCitation that adds the record when no record has the id
updateCitationUpserts(current, id, updatedCitation) ==
    IF \E i \in DOMAIN current : current[i].id = id
    THEN Map(LAMBDA c : IF c.id = id THEN updatedCitation ELSE c, current)
    ELSE Append(current, updatedCitation)

\* setSavedCitations((current) => current.map(c => c.id === id ? updatedCitation : c))
updateCitation(current, id, updatedCitation) ==
    Map(LAMBDA c : IF c.id = id THEN updatedCitation ELSE c, current)

\* setSavedCitations((current) => current.filter(c => c.id !== id))
deleteCitation(current, id) == Filter(LAMBDA c : c.id # id, current)

\* no edit dialog is open: the dialogs are modal, the page behind an open
\* dialog takes no clicks
NoDialog == editingCitation = Null /\ editingResult = Null

\* a handler has run to its end: event handlers return nothing, what they
\* report is the toast ("" when the handler shows none)
Handled(o, a, message) ==
    /\ op' = o
    /\ arg' = a
    /\ outcome' = "returned"
    /\ out' = ""
    /\ toast' = message
    /\ calls' = calls

\* `${prefix}-${Date.now()}-${Math.random().toString(36).substr(2, 9)}`
RandomSuffix == "k3j9x1q7z"

NewId(prefix, time) == prefix \o "-" \o ToString(time) \o "-" \o RandomSuffix

\* what a creation reads from the clock and the random source: the clock does
\* not go back, and nothing keeps two creations from reading the same
\* millisecond and the same random digits, so a reading is a new one (now + 1)
\* or the reading of the creation before it (now)
Readings == {time \in {now, now + 1} : time >= 1 /\ time <= MaxRecords}

\* new Date().toISOString() at submission
IsoNow == "2024-03-01T10:00:00.000Z"

SourceType ==
    {"article", "book", "website", "journal", "newspaper", "thesis", "conference", "report"}

\* sourceTypeInfo[type].requiredFields
requiredFields(type) ==
    IF type \in {"book", "thesis", "report"} THEN <<"title", "authors", "year", "publisher">>
    ELSE IF type = "website" THEN <<"title", "url", "dateAccessed">>
    ELSE <<"title", "authors", "year", "source">>

\* validateForm: the required fields that are empty or blank
missingFields(formData) ==
    Filter(LAMBDA field : ~Truthy(formData[field]) \/ Trim(formData[field]) = "",
           requiredFields(formData.type))

\* a.trim() of every piece, the empty pieces dropped (filter(Boolean))
splitAuthors(text) ==
    Filter(LAMBDA a : a # "", Map(LAMBDA a : Trim(a), Split(text, ",")))

OrUndefined(v) == IF Truthy(v) THEN v ELSE Undefined

\* the stored type of a manual submission
manualType(type) ==
    IF type \in {"journal", "newspaper", "conference", "thesis", "report"} THEN "article"
    ELSE type

\* the record handleManualSubmit builds from the form
manualCitation(formData, time) ==
    [id |-> NewId("manual", time),
     title |-> formData.title,
     authors |-> splitAuthors(formData.authors),
     year |-> formData.year,
     source |-> Or(formData.source, formData.publisher),
     url |-> OrUndefined(formData.url),
     doi |-> OrUndefined(formData.doi),
     pages |-> OrUndefined(formData.pages),
     volume |-> OrUndefined(formData.volume),
     issue |-> OrUndefined(formData.issue),
     publisher |-> OrUndefined(formData.publisher),
     type |-> manualType(formData.type),
     dateAccessed |-> Or(formData.dateAccessed, IsoNow),
     confidence |-> Undefined]

\* a manual form with every field the source types require filled in
FilledForm(type) ==
    [type |-> type, title |-> "Deep Learning", authors |-> "Ada Lovelace, Alan Turing",
     year |-> "2021", source |-> "Nature", url |-> "http://x.org/a", doi |-> "",
     pages |-> "10-20", volume |-> "", issue |-> "", publisher |-> "MIT Press",
     dateAccessed |-> "2024-01-05"]

\* a manual form with the title only
TitleOnlyForm(type) ==
    [type |-> type, title |-> "Deep Learning", authors |-> "", year |-> "", source |-> "",
     url |-> "", doi |-> "", pages |-> "", volume |-> "", issue |-> "", publisher |-> "",
     dateAccessed |-> ""]

\* the manual forms drawn: every source type filled in, and forms that miss
\* required fields (an empty title, a blank title, everything but the title)
ManualFormInputs ==
    {FilledForm(type) : type \in SourceType}
    \cup {[FilledForm("journal") EXCEPT !.title = ""],
          [FilledForm("website") EXCEPT !.title = " "]}
    \cup {TitleOnlyForm(type) : type \in {"article", "book", "website"}}

\* handleManualSubmit of the combined form, handleSubmit of ManualCitationForm
HandleManualSubmit ==
    \E formData \in ManualFormInputs :
        LET missing == missingFields(formData) IN
        /\ NoDialog
        /\ IF missing # <<>>
           THEN /\ Handled("handleManualSubmit", formData.type,
                           "Please fill in required fields: " \o Join(missing, ", "))
                /\ UNCHANGED <<citation, citations, uiVars>>
           ELSE /\ Len(citations) < MaxRecords
                /\ now' \in Readings
                /\ citations' = addCitation(citations, manualCitation(formData, now'))
                /\ Handled("handleManualSubmit", formData.type,
                           "Citation added to your bibliography!")
                /\ UNCHANGED <<citation, filterBy, sortBy, sortOrder, exportFormat,
                               preferredStyle, editingCitation, editingResult, searchVars>>

\* the search results on the page after a search (the mock results of
\* enhancedSearch for the query "climate")
SearchResults ==
    {[id |-> "mock-2",
      title |-> "Environmental Changes and Species Adaptation Mechanisms",
      authors |-> <<"Brown, Anna K.", "Davis, Kevin L.">>,
      year |-> "2022",
      journal |-> "Journal of Medical Research",
      doi |-> "10.1016/j.jmr.2022.05.123",
      confidence |-> "0.78",
      url |-> "https://sciencedirect.com/article/example-2022",
      pages |-> "112-128",
      volume |-> "156",
      issue |-> "8",
      publisher |-> Undefined]}

\* the text left in the title field of an edit dialog: the field cleared
TitleInputs == {""}

\* the record addCitationFromResult builds from a search result
citationFromResult(result, time) ==
    [id |-> NewId("citation", time),
     title |-> result.title,
     authors |-> result.authors,
     year |-> result.year,
     source |-> result.journal,
     url |-> result.url,
     doi |-> result.doi,
     pages |-> result.pages,
     volume |-> result.volume,
     issue |-> result.issue,
     publisher |-> result.publisher,
     type |-> "article",
     dateAccessed |-> IsoNow,
     confidence |-> result.confidence]

\* the Add button of a search result
AddCitationFromResult ==
    \E result \in SearchResults :
        /\ NoDialog
        /\ Len(citations) < MaxRecords
        /\ now' \in Readings
        /\ citations' = addCitation(citations, citationFromResult(result, now'))
        /\ Handled("addCitationFromResult", result.id, "Citation added to your bibliography!")
        /\ UNCHANGED <<citation, filterBy, sortBy, sortOrder, exportFormat, preferredStyle,
                       editingCitation, editingResult, searchVars>>

\* the Edit button of a search result: setEditingResult({ ...result })
HandleEditResult ==
    \E result \in SearchResults :
        /\ NoDialog
        /\ editingResult' = result
        /\ Handled("handleEditResult", result.id, "")
        /\ UNCHANGED <<citation, citations, filterBy, sortBy, sortOrder, exportFormat,
                       preferredStyle, editingCitation, now, searchVars>>

\* the title field of the result dialog:
\* setEditingResult(prev => prev ? { ...prev, title: e.target.value } : null)
SetEditingResultTitle ==
    \E value \in TitleInputs :
        /\ editingResult # Null
        /\ editingResult.title # value
        /\ editingResult' = [editingResult EXCEPT !.title = value]
        /\ Handled("setEditingResult", value, "")
        /\ UNCHANGED <<citation, citations, filterBy, sortBy, sortOrder, exportFormat,
                       preferredStyle, editingCitation, now, searchVars>>

\* Cancel in the result dialog: setEditingResult(null)
CancelEditResult ==
    /\ editingResult # Null
    /\ editingResult' = Null
    /\ Handled("cancelEditResult", "", "")
    /\ UNCHANGED <<citation, citations, filterBy, sortBy, sortOrder, exportFormat,
                   preferredStyle, editingCitation, now, searchVars>>

\* Add to Bibliography in the result dialog
AddEditedCitation ==
    /\ editingResult # Null
    /\ Len(citations) < MaxRecords
    /\ now' \in Readings
    /\ citations' = addCitation(citations, citationFromResult(editingResult, now'))
    /\ editingResult' = Null
    /\ Handled("addEditedCitation", editingResult.id, "Citation added to your bibliography!")
    /\ UNCHANGED <<citation, filterBy, sortBy, sortOrder, exportFormat, preferredStyle,
                   editingCitation, searchVars>>

\* formData.title.trim() && formData.source.trim()
isFormValid(formData) == Trim(formData.title) # "" /\ Trim(formData.source) # ""

\* the record UrlCitationForm.addCitation builds from the form
urlCitation(formData, time) ==
    [id |-> NewId("citation", time),
     title |-> formData.title,
     authors |-> IF formData.authors # ""
                 THEN Map(LAMBDA a : Trim(a), Split(formData.authors, ","))
                 ELSE <<>>,
     year |-> formData.year,
     source |-> formData.source,
     url |-> formData.url,
     doi |-> Undefined,
     pages |-> Undefined,
     volume |-> Undefined,
     issue |-> Undefined,
     publisher |-> Undefined,
     type |-> formData.type,
     dateAccessed |-> formData.dateAccessed,
     confidence |-> Undefined]

\* the URL forms drawn: the type is 'website' in every state of the form
UrlFormInputs ==
    [title : {"", "Article Title Could Not Be Extracted"},
     authors : {""},
     year : {"2024"},
     source : {" ", "Example"},
     url : {"https://example.com/a"},
     dateAccessed : {"2024-03-01"},
     type : {"website"}]

\* UrlCitationForm.addCitation
UrlAddCitation ==
    \E formData \in UrlFormInputs :
        /\ NoDialog
        /\ IF ~isFormValid(formData)
           THEN /\ Handled("urlAddCitation", "", "Please fill in at least the title and source")
                /\ UNCHANGED <<citation, citations, uiVars>>
           ELSE /\ Len(citations) < MaxRecords
                /\ now' \in Readings
                /\ citations' = addCitation(citations, urlCitation(formData, now'))
                /\ Handled("urlAddCitation", "", "Citation added to your bibliography!")
                /\ UNCHANGED <<citation, filterBy, sortBy, sortOrder, exportFormat,
                               preferredStyle, editingCitation, editingResult, searchVars>>

\* the Edit button of a record: setEditingCitation({ ...citation })
HandleEdit ==
    \E i \in DOMAIN citations :
        /\ NoDialog
        /\ editingCitation' = citations[i]
        /\ Handled("handleEdit", citations[i].id, "")
        /\ UNCHANGED <<citation, citations, filterBy, sortBy, sortOrder, exportFormat,
                       preferredStyle, editingResult, now, searchQuery, isSearching,
                   results, hasSearched, pending>>

\* the title field of the edit dialog:
\* setEditingCitation(prev => prev ? { ...prev, title: e.target.value } : null)
SetEditingCitationTitle ==
    \E value \in TitleInputs :
        /\ editingCitation # Null
        /\ editingCitation.title # value
        /\ editingCitation' = [editingCitation EXCEPT !.title = value]
        /\ Handled("setEditingCitation", value, "")
        /\ UNCHANGED <<citation, citations, filterBy, sortBy, sortOrder, exportFormat,
                       preferredStyle, editingResult, now, searchQuery, isSearching,
                   results, hasSearched, pending>>

\* Cancel in the edit dialog: setEditingCitation(null)
CancelEdit ==
    /\ editingCitation # Null
    /\ editingCitation' = Null
    /\ Handled("cancelEdit", "", "")
    /\ UNCHANGED <<citation, citations, filterBy, sortBy, sortOrder, exportFormat,
                   preferredStyle, editingResult, now, searchQuery, isSearching,
                   results, hasSearched, pending>>

\* Save Changes in the edit dialog
SaveEdit ==
    /\ editingCitation # Null
    /\ citations' = updateCitation(citations, editingCitation.id, editingCitation)
    /\ editingCitation' = Null
    /\ Handled("saveEdit", editingCitation.id, "Citation updated successfully!")
    /\ UNCHANGED <<citation, filterBy, sortBy, sortOrder, exportFormat, preferredStyle,
                   editingResult, now, searchQuery, isSearching,
                   results, hasSearched, pending>>

\* the Delete button of a record; confirm() is answered by the user
HandleDelete ==
    \E i \in DOMAIN citations, confirmed \in BOOLEAN :
        /\ NoDialog
        /\ IF confirmed
           THEN /\ citations' = deleteCitation(citations, citations[i].id)
                /\ Handled("handleDelete", citations[i].id, "Citation deleted")
           ELSE /\ citations' = citations
                /\ Handled("handleDelete", citations[i].id, "")
        /\ UNCHANGED <<citation, uiVars>>

\* the application starts with the empty collection useKV('bibliography', [])
\* gives it
InitCollection ==
    /\ citation = NoCitation
    /\ citations = <<>>
    /\ InitUI
    /\ InitIdle

NextCollection ==
    \/ HandleManualSubmit
    \/ AddCitationFromResult
    \/ HandleEditResult
    \/ SetEditingResultTitle
    \/ CancelEditResult
    \/ AddEditedCitation
    \/ UrlAddCitation
    \/ HandleEdit
    \/ SetEditingCitationTitle
    \/ CancelEdit
    \/ SaveEdit
    \/ HandleDelete

SpecCollection == InitCollection /\ [][NextCollection]_vars

-----------------------------------------------------------------------------
(* Claims about the record collection, checked under SpecCollection *)

\* the last handler added a record, which is now the last of the collection
Added(handler) ==
    /\ op = handler
    /\ toast = "Citation added to your bibliography!"
    /\ citations # <<>>

\* C18: a manual submission stores newspaper, thesis, conference and report
\* as article, and article, journal, website and book under the selected type
C18_ManualStoredType ==
    Added("handleManualSubmit") =>
        LET stored == citations[Len(citations)].type IN
        /\ arg \in {"newspaper", "thesis", "conference", "report"} => stored = "article"
        /\ arg \in {"article", "journal", "website", "book"} => stored = arg

\* C19: every record of the collection has a non-empty title and a type in
\* {article, journal, website, book}, whatever records were created, edited
\* and saved, or deleted
C19_TitleAndTypePresent ==
    \A i \in DOMAIN citations :
        /\ citations[i].title # ""
        /\ citations[i].type \in CitationType

\* the handlers that create a record
Creators == {"handleManualSubmit", "addCitationFromResult", "addEditedCitation", "urlAddCitation"}

\* the ids of the records of a collection
Ids(current) == {current[i].id : i \in DOMAIN current}

\* the positions of the records of a collection that do not have the id
Others(current, id) == {i \in DOMAIN current : current[i].id # id}

\* the k-th smallest element of a set of positions
NthOf(positions, k) == CHOOSE i \in positions : Cardinality({j \in positions : j <= i}) = k

IdPool == {NewId(prefix, time) : prefix \in {"manual", "citation"}, time \in 1..MaxRecords}

\* no two records of the collection share an id
UniqueIds ==
    \A i, j \in DOMAIN citations : i # j => citations[i].id # citations[j].id

\* a save leaves every record of the collection with the id it had
SaveKeepsIds ==
    (op' = "saveEdit" /\ editingCitation # Null) =>
        /\ Len(citations') = Len(citations)
        /\ \A i \in DOMAIN citations : citations'[i].id = citations[i].id

\* the last handler deleted the records with the id
Deleted(id) == op = "handleDelete" /\ arg = id /\ toast = "Citation deleted"

\* C21: no two records of the collection share an id, an edit never changes
\* the id of a record, and the id of a deleted record is never the id of a
\* record again
C21_IdentifierInvariant ==
    /\ []UniqueIds
    /\ [][SaveKeepsIds]_vars
    /\ \A id \in IdPool : [](Deleted(id) => [](id \notin Ids(citations)))

-----------------------------------------------------------------------------
(* Claims about the match confidence, checked under SpecConfidence *)

\* the confidence of a record: absent, or the score of the search
ConfidenceValues == {Undefined, "0.55", "0.92"}

WithConfidence(c, value) == [c EXCEPT !.confidence = value]

\* the formatters and the exports applied to a record with or without a
\* confidence, alone in the collection or before a second record
InitConfidence ==
    /\ citation \in {WithConfidence(c, value) :
                        c \in BibliographyRecords, value \in ConfidenceValues}
    /\ citations \in {<<citation>>,
                      <<citation, WithConfidence([ClimateModels EXCEPT !.id = "c2"], "0.40")>>}
    /\ InitUI
    /\ InitIdle

NextConfidence ==
    \/ FormatCitationForExport
    \/ FormatInTextCitation
    \/ GenerateRISFormat
    \/ GenerateBibTeXFormat
    \/ GenerateEndNoteFormat
    \/ ExportBibliography

SpecConfidence == InitConfidence /\ [][NextConfidence]_vars

\* what the operation that ran returns or writes for a record and a collection
OutputOf(c, cs) ==
    CASE op = "formatCitationForExport" -> formatCitationForExport(c, arg)
      [] op = "formatInTextCitation" -> formatInTextCitation(c, arg)
      [] op = "generateRISFormat" -> generateRISFormat(cs)
      [] op = "generateBibTeXFormat" -> generateBibTeXFormat(cs)
      [] op = "generateEndNoteFormat" -> generateEndNoteFormat(cs)
      [] op = "exportBibliography" -> exportBibliographyContent(arg, viewOf(cs), exportFormat)

\* C22: a record gives the same full citation, in-text citation and export
\* output whatever its confidence is, present or absent
C22_ConfidenceNonInterference ==
    outcome \in {"returned", "downloaded"} =>
        \A value \in ConfidenceValues :
            out = OutputOf(WithConfidence(citation, value),
                           [i \in DOMAIN citations |-> WithConfidence(citations[i], value)])

\* the Mendeley export of a record that has a confidence
C22_Witness ==
    /\ op = "exportBibliography"
    /\ arg = "mendeley"
    /\ outcome = "downloaded"
    /\ citation.confidence = "0.92"
    /\ Len(citations) = 2
    /\ StartsWith(out, "Type: Journal Article\nTitle: Climate Models\n")

-----------------------------------------------------------------------------
(* Further claims about the export entry points, checked under             *)
(* SpecBibliography                                                        *)

\* the format of the document a call wrote: exportToFile writes RIS for
\* 'zotero' and 'mendeley'
DocumentFormat ==
    IF op = "exportToFile" /\ arg \in {"zotero", "mendeley"} THEN "ris" ELSE arg

\* the number of entries of an exported document
Entries(format, doc) ==
    CASE format \in {"txt", "bibtex"} -> Len(Split(doc, "\n\n"))
      [] format = "rtf" -> Occurrences(doc, "\\par\\par ")
      [] format = "csv" -> Len(Split(doc, "\n")) - 1
      [] format = "ris" -> Occurrences(doc, "TY  - ")
      [] format = "endnote" -> Occurrences(doc, "%0 ")
      [] format = "zotero" -> Occurrences(doc, "<rdf:Description ")
      [] format = "mendeley" -> Occurrences(doc, "Type: ")

\* C23: whatever the type filter and the sort setting, the document an export
\* writes has exactly one entry for each record of the collection
C23_ExportsWholeCollection ==
    (ExportCall /\ outcome = "downloaded") =>
        Entries(DocumentFormat, out) = Len(citations)

\* the lines of a document that start with a tag, without the tag
TaggedLines(doc, tag) ==
    LET tagged == Filter(LAMBDA line : StartsWith(line, tag), Split(doc, "\n"))
    IN  [k \in DOMAIN tagged |-> SubSeq(tagged[k], Len(tag) + 1, Len(tagged[k]))]

\* the start page and the end page the claim gives a pages value
StartPage(pages) ==
    IF IndexOf(pages, "-") = 0 THEN pages ELSE SubSeq(pages, 1, IndexOf(pages, "-") - 1)

EndPage(pages) ==
    IF IndexOf(pages, "-") = 0 THEN pages
    ELSE SubSeq(pages, IndexOf(pages, "-") + 1, Len(pages))

\* C24: in the component's RIS export every record with pages has an SP and
\* an EP line; pages without a hyphen give the same value on both, pages
\* "a-b" give SP a and EP b
C24_RisEndPageFallback ==
    (op = "exportBibliography" /\ arg = "ris" /\ outcome = "downloaded") =>
        LET paged == Filter(LAMBDA c : Truthy(c.pages), filteredAndSortedCitations)
            sp == TaggedLines(out, "SP  - ")
            ep == TaggedLines(out, "EP  - ")
        IN  /\ Len(sp) = Len(paged)
            /\ Len(ep) = Len(paged)
            /\ \A k \in DOMAIN paged :
                   /\ sp[k] = StartPage(paged[k].pages)
                   /\ ep[k] = EndPage(paged[k].pages)

\* a record with pages 123-145 and a record with the single page 7 exported
\* together
C24_Witness ==
    /\ op = "exportBibliography"
    /\ arg = "ris"
    /\ outcome = "downloaded"
    /\ Includes(out, "\nSP  - 7\nEP  - 7\n")
    /\ Includes(out, "\nSP  - 123\nEP  - 145\n")

-----------------------------------------------------------------------------
(* Further claims about lib/exportUtils, checked under SpecLib *)

\* the lines of the entry generateBibTeXFormat wrote for the i-th record
BibTeXLines(i) == Split(Split(out, "\n\n")[i], "\n")

HasLine(lines, line) == \E k \in DOMAIN lines : lines[k] = line

\* C25: for a website record with a non-empty url generateBibTeXFormat writes
\* the field howpublished={\url{<url>}}, whether the source is empty or not,
\* and writes note={Accessed: <dateAccessed>} exactly when dateAccessed is
\* present
C25_WebsiteHowpublished ==
    (op = "generateBibTeXFormat" /\ outcome = "returned") =>
        \A i \in DOMAIN citations :
            LET c == citations[i] IN
            (c.type = "website" /\ Truthy(c.url)) =>
                /\ HasLine(BibTeXLines(i), "  howpublished={\\url{" \o c.url \o "}},")
                /\ Truthy(c.dateAccessed) <=>
                       HasLine(BibTeXLines(i), "  note={Accessed: " \o Str(c.dateAccessed) \o "},")

-----------------------------------------------------------------------------
(* Further claims about the style formatters, checked under SpecFormat *)

\* C26: formatCitation of CitationStyleConverter, formatCitationForExport of
\* Bibliography and formatCitationForExport of the App-level export return
\* the same string for every record and every style
C26_FormattersEquivalent ==
    (op \in FullFormatters /\ outcome = "returned" /\ arg \in CitationStyle) =>
        /\ out = formatCitationForExport(citation, arg)
        /\ out = appFormatCitationForExport(citation, arg)
        /\ \A locale \in Locales : out = formatCitation(citation, arg, locale)

-----------------------------------------------------------------------------
(* Claims about missing values in the exports, checked under               *)
(* SpecBibliography                                                        *)

\* C27: no BibTeX, RIS, EndNote or CSV document, citation key included,
\* contains the text "undefined" where a field of a record is missing
C27_NoUndefinedLeak ==
    (ExportCall /\ outcome = "downloaded"
     /\ DocumentFormat \in {"bibtex", "ris", "endnote", "csv"}) =>
        ~Includes(out, "undefined")

-----------------------------------------------------------------------------
(* The authors field of the edit dialog *)

\* the value the authors field shows: authors.join(', ')
authorsText(authors) == Join(authors, ", ")

\* the authors field of the edit dialog (the result dialog has the same field):
\* setEditingCitation(prev => prev ? { ...prev, authors: parse(value) } : null);
\* the text typed is the text the field shows, or another list
SetEditingCitationAuthors ==
    /\ editingCitation # Null
    /\ \E value \in {authorsText(editingCitation.authors), "Ada Lovelace,, Alan Turing ,"} :
           /\ editingCitation' = [editingCitation EXCEPT !.authors = splitAuthors(value)]
           /\ Handled("setEditingCitationAuthors", value, "")
    /\ UNCHANGED <<citation, citations, filterBy, sortBy, sortOrder, exportFormat,
                   preferredStyle, editingResult, now, searchQuery, isSearching,
                   results, hasSearched, pending>>

\* names in "Family, Given" form and in "Given Family" form
AuthorNames == {"Lee, A.", "Kim, B.", "John Smith", "Plato"}

\* a collection of one record with up to MaxAuthors authors
InitAuthors ==
    /\ citation \in {[ClimateModels EXCEPT !.authors = authors] :
                        authors \in UNION {[1..n -> AuthorNames] : n \in 0..MaxAuthors}}
    /\ citations = <<citation>>
    /\ InitUI
    /\ InitIdle

NextAuthors ==
    \/ HandleEdit
    \/ SetEditingCitationAuthors
    \/ SaveEdit

SpecAuthors == InitAuthors /\ [][NextAuthors]_vars

\* C28: typing the text the authors field shows leaves the authors of the
\* draft as they were (same number, same order), so saving after it leaves
\* the authors of the record unchanged
C28_AuthorsRoundTrip ==
    [][(op' = "setEditingCitationAuthors" /\ editingCitation # Null
        /\ arg' = authorsText(editingCitation.authors)) =>
            editingCitation'.authors = editingCitation.authors]_vars

-----------------------------------------------------------------------------
(* Edit drafts and deletions that reach the collection in any order *)

\* App.deleteCitation called while a draft may be open: the Delete button is
\* behind the modal dialog, but the collection is the store App owns and the
\* operation takes no account of the dialog
DeleteCitation ==
    \E i \in DOMAIN citations :
        /\ citations' = deleteCitation(citations, citations[i].id)
        /\ Handled("deleteCitation", citations[i].id, "")
        /\ UNCHANGED <<citation, uiVars>>

\* App.updateCitation called with a record that may be in the collection or
\* not: onUpdate(r.id, r)
UpdateCitation ==
    \E r \in {ClimateModels} \cup MoreRecords, title \in TitleInputs :
        /\ citations' = updateCitation(citations, r.id, [r EXCEPT !.title = title])
        /\ Handled("updateCitation", r.id, "")
        /\ UNCHANGED <<citation, uiVars>>

\* a collection of up to MaxRecords records
InitStaleEdit ==
    /\ citation = NoCitation
    /\ citations \in Collections({ClimateModels})
    /\ InitUI
    /\ InitIdle

NextStaleEdit ==
    \/ HandleEdit
    \/ SetEditingCitationTitle
    \/ CancelEdit
    \/ SaveEdit
    \/ HandleDelete
    \/ DeleteCitation
    \/ UpdateCitation

SpecStaleEdit == InitStaleEdit /\ [][NextStaleEdit]_vars

\* C29: a save of a draft whose record has been deleted in the meantime, and
\* any update with an id that no record of the collection has, leaves the
\* collection as it is
C29_StaleSaveChangesNothing ==
    [][/\ (op' = "saveEdit" /\ editingCitation # Null
           /\ editingCitation.id \notin Ids(citations)) => citations' = citations
       /\ (op' = "updateCitation" /\ arg' \notin Ids(citations)) => citations' = citations
      ]_vars

\* the draft of record c1 was saved after c1 had been deleted: the collection
\* holds the other record only
C29_Witness ==
    /\ op = "saveEdit"
    /\ arg = "c1"
    /\ Len(citations) = 1
    /\ citations[1].id = "c2"

-----------------------------------------------------------------------------
(* Article search: the query, the search in flight and its results *)

\* the queries typed into the search input
QueryInputs ==
    {"", "  ", "climate", "Climate", "covid 19", "machine learning in healthcare", " tla ",
     "ai"}

\* a blank test that takes the empty query only
isEmptyQuery(query) == query = ""

\* if (!searchQuery.trim()) { toast.error(...); return }
isBlankQuery(query) == Trim(query) = ""

\* the title of a mock result: the query's topic or the query itself
mockTitle(query, learning, climate, covid, other) ==
    IF Includes(query, "machine learning") THEN learning
    ELSE IF Includes(query, "climate") THEN climate
    ELSE IF Includes(query, "covid") THEN covid
    ELSE other

\* simulateSearch: three mock results, returned once the timer has fired
simulateSearch(query) ==
    << [id |-> "1", confidence |-> "0.95",
        title |-> mockTitle(query, "Machine Learning in Healthcare: A Comprehensive Review",
                            "Climate Change Impacts on Biodiversity",
                            "COVID-19 Pandemic Response Strategies",
                            query \o ": A Research Study")],
       [id |-> "2", confidence |-> "0.78",
        title |-> mockTitle(query, "Applications of AI in Modern Healthcare Systems",
                            "Environmental Changes and Species Adaptation",
                            "Global Health Emergency Response Protocols",
                            "Understanding " \o query \o ": Methodological Approaches")],
       [id |-> "3", confidence |-> "0.52",
        title |-> mockTitle(query, "Deep Learning Techniques for Medical Diagnosis",
                            "Ecosystem Resilience in Changing Climates",
                            "Vaccine Development and Distribution Challenges",
                            query \o ": Current Trends and Future Directions")] >>

\* what a search provider can resolve with: simulateSearch's mock results, or
\* the list of the language model behind enhancedSearch, which may be empty
SearchOutcomes(query) == {simulateSearch(query), <<>>}

\* the search Input's onChange; the Input is disabled while isSearching
SetSearchQuery ==
    \E query \in QueryInputs :
        /\ ~isSearching
        /\ searchQuery' = query
        /\ Handled("setSearchQuery", query, "")
        /\ UNCHANGED <<citation, citations, filterBy, sortBy, sortOrder, exportFormat,
                       preferredStyle, editingCitation, editingResult, now, isSearching,
                       results, hasSearched, pending>>

\* handleSearch up to its await: called by Enter in the Input or by the Search
\* button, both disabled while isSearching
HandleSearch ==
    /\ ~isSearching
    /\ IF isBlankQuery(searchQuery)
       THEN /\ Handled("handleSearch", searchQuery, "Please enter an article title to search")
            /\ UNCHANGED <<isSearching, hasSearched, pending>>
       ELSE /\ isSearching' = TRUE
            /\ hasSearched' = TRUE
            /\ pending' = Append(pending, searchQuery)
            /\ Handled("handleSearch", searchQuery, "")
    /\ UNCHANGED <<citation, citations, filterBy, sortBy, sortOrder, exportFormat,
                   preferredStyle, editingCitation, editingResult, now, searchQuery, results>>

\* handleSearch after its await, the search resolved: try and finally
SearchResolves ==
    /\ pending # <<>>
    /\ \E searchResults \in SearchOutcomes(Head(pending)) :
           /\ results' = searchResults
           /\ Handled("searchResolved", Head(pending),
                      IF Len(searchResults) = 0
                      THEN "No articles found. Try a different search term."
                      ELSE "Found " \o ToString(Len(searchResults)) \o " potential matches")
    /\ isSearching' = FALSE
    /\ pending' = Tail(pending)
    /\ UNCHANGED <<citation, citations, filterBy, sortBy, sortOrder, exportFormat,
                   preferredStyle, editingCitation, editingResult, now, searchQuery,
                   hasSearched>>

\* handleSearch after its await, the search rejected: catch and finally
SearchRejects ==
    /\ pending # <<>>
    /\ results' = <<>>
    /\ Handled("searchRejected", Head(pending), "Search failed. Please try again.")
    /\ isSearching' = FALSE
    /\ pending' = Tail(pending)
    /\ UNCHANGED <<citation, citations, filterBy, sortBy, sortOrder, exportFormat,
                   preferredStyle, editingCitation, editingResult, now, searchQuery,
                   hasSearched>>

InitSearch ==
    /\ citation = NoCitation
    /\ citations = <<>>
    /\ InitUI
    /\ InitIdle

NextSearch ==
    \/ SetSearchQuery
    \/ HandleSearch
    \/ SearchResolves
    \/ SearchRejects

SpecSearch == InitSearch /\ [][NextSearch]_vars

\* the awaited promise settles: simulateSearch's timer fires, and the catch or
\* the try continuation followed by finally runs
SpecSearchFair == SpecSearch /\ WF_vars(SearchResolves \/ SearchRejects)

\* a query of whitespace only
OnlySpaces(query) == \A i \in 1..Len(query) : SubSeq(query, i, i) = " "

\* C30: a search with a blank query changes no search state; any other search
\* sets isSearching, and every started search ends with isSearching false,
\* with empty results when it failed; no search starts while isSearching, so
\* at most one search is in flight
C30_SearchLifecycle ==
    /\ [][(op' = "handleSearch" /\ OnlySpaces(searchQuery)) => UNCHANGED searchVars]_vars
    /\ [][(op' = "handleSearch" /\ ~OnlySpaces(searchQuery)) =>
              (isSearching' /\ Len(pending') = Len(pending) + 1)]_vars
    /\ [][(op' \in {"searchResolved", "searchRejected"}) => ~isSearching']_vars
    /\ [][(op' = "searchRejected") => results' = <<>>]_vars
    /\ [][isSearching => Len(pending') <= Len(pending)]_vars
    /\ [](Len(pending) <= 1)
    /\ [](isSearching <=> pending # <<>>)
    /\ (isSearching ~> ~isSearching)

\* a search that replaced earlier results has failed: the results are empty
\* and isSearching is false again
C30_Witness ==
    /\ op = "searchRejected"
    /\ arg = "covid 19"
    /\ hasSearched
    /\ ~isSearching
    /\ results = <<>>
    /\ pending = <<>>

=============================================================================
